---- MODULE Spec2Model ----
(***************************************************************************)
(* Client-side session / identity / event bookkeeping of the WeRetail     *)
(* sample application: the useCartSession hook, the screens that use it   *)
(* (ProductDetail, CartTab, Checkout), the XDM event builders, the        *)
(* profile storage and the push notification service.                     *)
(***************************************************************************)
EXTENDS Integers, Sequences, FiniteSets, TLC

VARIABLES
    storedCartSessionId, \* AsyncStorage['@cart_session_id'] (Null when absent)
    generated,           \* number of ids generateCartSessionId has produced
    hook,                \* one useCartSession instance per screen
    identityMap,         \* per screen: has Identity.getIdentities() filled the state
    focused,             \* the screen the user sees
    cart,                \* CartContext: the SKUs in the cart, in insertion order
    purchaseInProgress,  \* Checkout state flag
    add,                 \* ProductDetail.handleAddToCart in flight
    rem,                 \* CartTab.handleRemoveFromCart in flight
    pv,                  \* per screen: the focus page view in flight
    chk,                 \* CartTab checkout onPress in flight
    pay,                 \* Checkout.handlePayment in flight
    sent,                \* the last event Edge.sendEvent accepted
    storedUserProfile,   \* AsyncStorage['userProfile'] (<<>> when absent)
    profileStorage,      \* the useProfileStorage instance of ProfileTab
    profileTab,          \* ProfileTab: its state and its handler in flight
    builderArgs,         \* the arguments handed to an event builder
    builderResult,       \* the builder last called and what it returned
    device,              \* Platform.OS and Device.isDevice
    adobe,               \* the stored App ID and the Adobe SDK's push state
    push,                \* the PushNotificationService singleton
    pushOps,             \* the service's async methods in flight
    delivered,           \* the last inbound FCM message and what it scheduled
    storedAssuranceURL,  \* AsyncStorage['@adobe_assurance_url'] (<<>> when absent)
    assurance,           \* AssuranceView: its state and its handler in flight
    startSessionCalls,   \* the URLs Assurance.startSession has been called with
    startup              \* RootLayout.initAdobe and what it initialised

\* the variables of the cart screens, of the profile screen, of a builder call
cartVars == <<storedCartSessionId, generated, hook, identityMap, focused, cart,
              purchaseInProgress, add, rem, pv, chk, pay, sent>>
profileVars == <<storedUserProfile, profileStorage, profileTab>>
builderVars == <<builderArgs, builderResult>>
pushVars == <<device, adobe, push, pushOps, delivered>>
configVars == <<storedAssuranceURL, assurance, startSessionCalls, startup>>
vars == <<cartVars, profileVars, builderVars, pushVars, configVars>>

----------------------------------------------------------------------------
(* Bounds of the model *)

\* ids the generator may hand out before the model stops generating
MaxIds == 2
\* handlers (user actions) that may be suspended in an await at one time
MaxInFlight == 1

----------------------------------------------------------------------------
(* Values *)

\* null / absent session id
Null == 0
\* the literal 'unknown' of `cartSessionId || 'unknown'`
Unknown == -1

Screens == {"ProductDetail", "CartTab", "Checkout"}
Places == Screens \cup {"home"}
Products == {"S1"}

\* price of a catalogue product
Price(sku) == IF sku = "S1" THEN 50 ELSE 20

\* a cart item as CartContext holds it
CartItem(sku) ==
    [sku |-> sku, name |-> sku, title |-> sku, price |-> Price(sku), quantity |-> 1]

\* x || d on a string and on a number ('' , undefined and 0 are falsy)
StrOr(x, d) == IF x = "" THEN d ELSE x
NumOr(x, d) == IF x = 0 THEN d ELSE x

\* modifiedCart: the cart with the sku and title defaults filled in
modifiedCart(c) ==
    [i \in 1..Len(c) |->
        [CartItem(c[i]) EXCEPT !.sku = StrOr(@, "defaultSku"),
                               !.title = StrOr(@, "Unnamed Offer")]]

InCart(c, sku) == \E i \in 1..Len(c) : c[i] = sku

\* CartContext.addToCart
addToCart(c, sku) == IF InCart(c, sku) THEN c ELSE Append(c, sku)

\* a removeFromCart that leaves the cart as it is
removeFromCart_kept(c, sku) == c

\* CartContext.removeFromCart
RECURSIVE removeFromCart(_, _)
removeFromCart(c, sku) ==
    IF c = <<>> THEN <<>>
    ELSE IF Head(c) = sku THEN removeFromCart(Tail(c), sku)
    ELSE <<Head(c)>> \o removeFromCart(Tail(c), sku)

----------------------------------------------------------------------------
(* useCartSession: one instance per screen that calls the hook *)

\* the hook before it is mounted
HookUnmounted ==
    [mounted |-> FALSE, cartSessionId |-> Null, isLoading |-> TRUE,
     pc |-> "unmounted", newId |-> Null, result |-> "none", caught |-> FALSE,
     resetPc |-> "idle", resetNewId |-> Null, resetResult |-> "none",
     resetCaught |-> FALSE]

\* useState(null), useState(true), and the mount effect calling
\* loadOrCreateCartSession, which suspends in AsyncStorage.getItem
HookMounted ==
    [mounted |-> TRUE, cartSessionId |-> Null, isLoading |-> TRUE,
     pc |-> "reading", newId |-> Null, result |-> "pending", caught |-> FALSE,
     resetPc |-> "idle", resetNewId |-> Null, resetResult |-> "none",
     resetCaught |-> FALSE]

\* generateCartSessionId: cart-{Date.now()}-{random}; the n-th call yields
\* an id no earlier call yielded
generateCartSessionId(n) == n + 1

\* HasExisting with the test dropped: the load never finds the stored id
HasExisting_never(existingId) == FALSE

\* `if (existingId)`: was a session id found in the store
HasExisting(existingId) == existingId # Null

\* loadCatch that rethrows: no fallback id, the promise rejected
loadCatch_rethrow(h, fallbackId) ==
    [h EXCEPT !.isLoading = FALSE, !.pc = "done", !.newId = Null,
              !.result = "rejected", !.caught = TRUE]

\* the catch block of loadOrCreateCartSession followed by its finally block:
\* an in-memory id, the loading flag cleared, the promise fulfilled
loadCatch(h, fallbackId) ==
    [h EXCEPT !.cartSessionId = fallbackId, !.isLoading = FALSE,
              !.pc = "done", !.newId = Null, !.result = "fulfilled",
              !.caught = TRUE]

\* loadAfterGetItem clearing the loading flag before the new id is written
\* and set
loadAfterGetItem_flagFirst(h, ok, existingId, n) ==
    IF ~ok THEN loadCatch(h, generateCartSessionId(n))
    ELSE IF HasExisting(existingId)
    THEN [h EXCEPT !.cartSessionId = existingId, !.isLoading = FALSE,
                   !.pc = "done", !.result = "fulfilled"]
    ELSE [h EXCEPT !.pc = "writing", !.newId = generateCartSessionId(n),
                   !.isLoading = FALSE]

\* loadOrCreateCartSession resumed after getItem: ok is whether getItem
\* fulfilled, existingId what it read, n the ids generated so far
loadAfterGetItem(h, ok, existingId, n) ==
    IF ~ok THEN loadCatch(h, generateCartSessionId(n))
    ELSE IF HasExisting(existingId)
    THEN [h EXCEPT !.cartSessionId = existingId, !.isLoading = FALSE,
                   !.pc = "done", !.result = "fulfilled"]
    ELSE [h EXCEPT !.pc = "writing", !.newId = generateCartSessionId(n)]

\* loadOrCreateCartSession resumed after setItem
loadAfterSetItem(h, ok, n) ==
    IF ~ok THEN loadCatch(h, generateCartSessionId(n))
    ELSE [h EXCEPT !.cartSessionId = h.newId, !.isLoading = FALSE,
                   !.pc = "done", !.newId = Null, !.result = "fulfilled"]

\* does loadOrCreateCartSession call generateCartSessionId when it resumes:
\* after getItem unless an id was read, after setItem when the write failed
GeneratesAfterGetItem(ok, existingId) == ~(ok /\ HasExisting(existingId))
GeneratesAfterSetItem(ok) == ~ok

\* the mount of a screen: its hook instance and its identityMap state
Mount(s) ==
    /\ hook' = [hook EXCEPT ![s] = IF hook[s].mounted THEN @ ELSE HookMounted]
    /\ identityMap' = identityMap

\* AsyncStorage.getItem('@cart_session_id') settles for the hook of screen s
LoadGetItem(s) ==
    /\ hook[s].pc = "reading"
    /\ \E ok \in BOOLEAN :
         LET h2 == loadAfterGetItem(hook[s], ok, storedCartSessionId, generated) IN
         /\ GeneratesAfterGetItem(ok, storedCartSessionId) => generated < MaxIds
         /\ hook' = [hook EXCEPT ![s] = h2]
         /\ generated' = IF GeneratesAfterGetItem(ok, storedCartSessionId)
                         THEN generated + 1 ELSE generated
    /\ UNCHANGED <<storedCartSessionId, identityMap, focused, cart,
                   purchaseInProgress, add, rem, pv, chk, pay, sent,
                   profileVars, builderVars, pushVars, configVars>>

\* AsyncStorage.setItem('@cart_session_id', newId) settles for the hook of s
LoadSetItem(s) ==
    /\ hook[s].pc = "writing"
    /\ \E ok \in BOOLEAN :
         LET h2 == loadAfterSetItem(hook[s], ok, generated) IN
         /\ GeneratesAfterSetItem(ok) => generated < MaxIds
         /\ hook' = [hook EXCEPT ![s] = h2]
         /\ generated' = IF GeneratesAfterSetItem(ok) THEN generated + 1 ELSE generated
         /\ storedCartSessionId' = IF ok THEN hook[s].newId ELSE storedCartSessionId
    /\ UNCHANGED <<identityMap, focused, cart,
                   purchaseInProgress, add, rem, pv, chk, pay, sent,
                   profileVars, builderVars, pushVars, configVars>>

\* Identity.getIdentities() resolves on screen s and fills its identityMap
IdentityResolved(s) ==
    /\ hook[s].mounted
    /\ ~identityMap[s]
    /\ identityMap' = [identityMap EXCEPT ![s] = TRUE]
    /\ UNCHANGED <<storedCartSessionId, generated, hook, focused, cart,
                   purchaseInProgress, add, rem, pv, chk, pay, sent,
                   profileVars, builderVars, pushVars, configVars>>

----------------------------------------------------------------------------
(* Strings are sequences of one-character strings; '' and undefined are   *)
(* both the empty sequence, since the code below only tests them for      *)
(* truthiness or copies them.  An optional value is <<>> (undefined) or   *)
(* <<v>>.                                                                  *)

Undefined == <<>>
Some(v) == <<v>>
Truthy(str) == str # <<>>
Min(a, b) == IF a < b THEN a ELSE b

Digits == {"0", "1", "2", "3", "4", "5", "6", "7", "8", "9"}
Base36 == Digits \cup {"a", "b", "c", "i", "j", "k", "m", "p", "x", "z"}

\* String.prototype.toLowerCase on one character
LowerChar(c) ==
    CASE c = "A" -> "a" [] c = "B" -> "b" [] c = "C" -> "c"
      [] c = "N" -> "n" [] c = "X" -> "x" [] OTHER -> c

toLowerCase(str) == [i \in 1..Len(str) |-> LowerChar(str[i])]

\* String.prototype.trim
RECURSIVE trimStart(_)
trimStart(str) ==
    IF str # <<>> /\ Head(str) = " " THEN trimStart(Tail(str)) ELSE str
RECURSIVE trimEnd(_)
trimEnd(str) ==
    IF str # <<>> /\ str[Len(str)] = " "
    THEN trimEnd(SubSeq(str, 1, Len(str) - 1)) ELSE str
trim(str) == trimEnd(trimStart(str))

\* String.prototype.substring(a, b) for 0 <= a <= b
substring(str, a, b) == SubSeq(str, a + 1, Min(b, Len(str)))

\* Number.prototype.toString() of a natural number
RECURSIVE Decimal(_)
Decimal(n) ==
    LET d == <<"0", "1", "2", "3", "4", "5", "6", "7", "8", "9">>[(n % 10) + 1] IN
    IF n < 10 THEN <<d>> ELSE Decimal(n \div 10) \o <<d>>

\* Math.random().toString(36): a draw is the sequence of base-36 digits of
\* the fraction; the draw 0 prints as "0", any other as "0." and its digits
randomToString36(draw) == IF draw = <<>> THEN <<"0">> ELSE <<"0", ".">> \o draw

\* Crypto.digestStringAsync(SHA256, x): an injective digest of x
SHA256(x) == <<"#">> \o x

\* hashEmail
hashEmail(email) ==
    IF ~Truthy(email) THEN <<>> ELSE SHA256(trim(toLowerCase(email)))

\* buildTenantIdentities writing every field, '' for a missing input
buildTenantIdentities_placeholders(ecid, email, phone) ==
    [k \in {"ecid", "emailAddress", "hashedEmail", "mobilePhone"} |->
        CASE k = "ecid" -> ecid
          [] k = "emailAddress" -> email
          [] k = "hashedEmail" -> hashEmail(email)
          [] OTHER -> phone]

\* buildTenantIdentities: only the fields whose input is truthy
buildTenantIdentities(ecid, email, phone) ==
    LET keys == {k \in {"ecid", "emailAddress", "hashedEmail", "mobilePhone"} :
                   \/ k = "ecid" /\ Truthy(ecid)
                   \/ k \in {"emailAddress", "hashedEmail"} /\ Truthy(email)
                   \/ k = "mobilePhone" /\ Truthy(phone)} IN
    [k \in keys |-> CASE k = "ecid" -> ecid
                      [] k = "emailAddress" -> email
                      [] k = "hashedEmail" -> hashEmail(email)
                      [] OTHER -> phone]

\* extractECID: identityMap?.ECID?.[0]?.id
extractECID(idMap) ==
    IF "ECID" \in DOMAIN idMap /\ Len(idMap.ECID) > 0 THEN idMap.ECID[1].id
    ELSE Undefined

\* params.profile?.<field>
ProfileField(profile, f) ==
    IF profile # <<>> /\ f \in DOMAIN profile[1] THEN profile[1][f] ELSE Undefined

\* the identities every builder resolves first
ResolveIdentities(p) ==
    buildTenantIdentities(extractECID(p.identityMap),
                          ProfileField(p.profile, "email"),
                          ProfileField(p.profile, "phone"))

\* loginStatus keyed on the e-mail address instead of the first name
loginStatus_byEmail(profile) ==
    IF Truthy(ProfileField(profile, "email")) THEN "logged-in" ELSE "guest"

\* loginStatus: params.profile?.firstName ? 'logged-in' : 'guest'
loginStatus(profile) ==
    IF Truthy(ProfileField(profile, "firstName")) THEN "logged-in" ELSE "guest"

\* visitorType: params.profile?.firstName ? 'Customer' : 'Guest'
visitorType(profile) ==
    IF Truthy(ProfileField(profile, "firstName")) THEN "Customer" ELSE "Guest"

\* (params.profile?.firstName || 'guest user').toLowerCase()
participantName(profile) ==
    IF Truthy(ProfileField(profile, "firstName"))
    THEN toLowerCase(ProfileField(profile, "firstName"))
    ELSE <<"g", "u", "e", "s", "t", " ", "u", "s", "e", "r">>

\* `${Date.now()}-${Math.random().toString(36).substring(2, 11)}`
eventId(now, draw) ==
    Decimal(now) \o <<"-">> \o substring(randomToString36(draw), 2, 11)

\* new Date().toISOString(): the calendar day and the time of day
toISOString(now) ==
    [day |-> now \div 86400000, hh |-> (now \div 3600000) % 24,
     mm |-> (now \div 60000) % 60, ss |-> (now \div 1000) % 60,
     ms |-> now % 1000, zone |-> "Z"]

\* formatProductListItems emitting the line items in reverse order
formatProductListItems_reversed(items, cartSessionId) ==
    [i \in 1..Len(items) |->
        LET item == items[Len(items) + 1 - i] IN
        [SKU |-> StrOr(item.sku, "unknown"),
         name |-> StrOr(item.name, StrOr(item.title, "Unnamed Product")),
         quantity |-> NumOr(item.quantity, 1),
         priceTotal |-> NumOr(item.price, 0) * NumOr(item.quantity, 1),
         cartID |-> cartSessionId,
         unitPrice |-> NumOr(item.price, 0)]]

\* formatProductListItems: one line item per cart item, in order
formatProductListItems(items, cartSessionId) ==
    [i \in 1..Len(items) |->
        [SKU |-> StrOr(items[i].sku, "unknown"),
         name |-> StrOr(items[i].name, StrOr(items[i].title, "Unnamed Product")),
         quantity |-> NumOr(items[i].quantity, 1),
         priceTotal |-> NumOr(items[i].price, 0) * NumOr(items[i].quantity, 1),
         cartID |-> cartSessionId,
         unitPrice |-> NumOr(items[i].price, 0)]]

\* the fields the builders with tenantData share: identities only when the
\* resolved identities have a key
TenantData(p) ==
    LET ids == ResolveIdentities(p) IN
    IF DOMAIN ids # {} THEN [identities |-> ids] ELSE <<>>

\* f @@ g on records
Merge(f, g) == [k \in DOMAIN f \cup DOMAIN g |-> IF k \in DOMAIN f THEN f[k] ELSE g[k]]

\* buildPageViewEvent
buildPageViewEvent(p, now, draw) ==
    LET base == [id |-> eventId(now, draw),
                 eventType |-> "mobileApp.navigation.pageViews",
                 timestamp |-> toISOString(now),
                 loginStatus |-> loginStatus(p.profile),
                 visitorType |-> visitorType(p.profile),
                 participantName |-> participantName(p.profile),
                 counters |-> [pageViews |-> 1]]
        items == IF p.productListItems # <<>> /\ Len(p.productListItems[1]) > 0
                    /\ p.cartSessionId # Null
                 THEN [productListItems |->
                         formatProductListItems(p.productListItems[1], p.cartSessionId)]
                 ELSE <<>>
    IN Some(Merge(Merge(base, TenantData(p)), items))

\* buildCheckoutEvent: rejects when productListItems is undefined (items.map)
buildCheckoutEvent(p, now, draw) ==
    IF p.productListItems = <<>> THEN Undefined
    ELSE Some(Merge(
        [id |-> eventId(now, draw),
         eventType |-> "commerce.checkouts",
         timestamp |-> toISOString(now),
         loginStatus |-> loginStatus(p.profile),
         participantName |-> participantName(p.profile),
         counters |-> [checkouts |-> 1, reviewOrderPage |-> 1],
         transactionType |-> "checkout",
         productListItems |->
             formatProductListItems(p.productListItems[1], p.cartSessionId)],
        TenantData(p)))

\* buildProductRemovalEvent
buildProductRemovalEvent(p, now, draw) ==
    IF p.productListItems = <<>> THEN Undefined
    ELSE Some(Merge(
        [id |-> eventId(now, draw),
         eventType |-> "commerce.productListRemovals",
         timestamp |-> toISOString(now),
         loginStatus |-> loginStatus(p.profile),
         visitorType |-> visitorType(p.profile),
         participantName |-> participantName(p.profile),
         counters |-> [productListRemovals |-> 1],
         productListItems |->
             formatProductListItems(p.productListItems[1], p.cartSessionId)],
        TenantData(p)))

\* buildPurchaseEvent counting one purchase per line item
buildPurchaseEvent_aggregated(p, now, draw) ==
    IF p.productListItems = <<>> THEN Undefined
    ELSE Some(Merge(
        [id |-> eventId(now, draw),
         eventType |-> "commerce.purchases",
         timestamp |-> toISOString(now),
         loginStatus |-> loginStatus(p.profile),
         visitorType |-> visitorType(p.profile),
         participantName |-> participantName(p.profile),
         counters |-> [purchases |-> Len(p.productListItems[1])],
         order |-> [purchaseID |-> p.purchaseID, priceTotal |-> p.priceTotal,
                    currencyCode |-> StrOr(p.currencyCode, "USD")],
         transactionType |-> "purchase",
         productListItems |->
             formatProductListItems(p.productListItems[1], p.cartSessionId)],
        TenantData(p)))

\* buildPurchaseEvent
buildPurchaseEvent(p, now, draw) ==
    IF p.productListItems = <<>> THEN Undefined
    ELSE Some(Merge(
        [id |-> eventId(now, draw),
         eventType |-> "commerce.purchases",
         timestamp |-> toISOString(now),
         loginStatus |-> loginStatus(p.profile),
         visitorType |-> visitorType(p.profile),
         participantName |-> participantName(p.profile),
         counters |-> [purchases |-> 1],
         order |-> [purchaseID |-> p.purchaseID, priceTotal |-> p.priceTotal,
                    currencyCode |-> StrOr(p.currencyCode, "USD")],
         transactionType |-> "purchase",
         productListItems |->
             formatProductListItems(p.productListItems[1], p.cartSessionId)],
        TenantData(p)))

\* buildProductInteractionEvent: a plain { xdm } object with no _id, no
\* visitorType and the identities attached even when empty
buildProductInteractionEvent(p, now, draw) ==
    IF p.productListItems = <<>> /\ p.cartSessionId # Null THEN Undefined
    ELSE Some(
        [eventType |-> IF p.transactionType = "remove_from_cart"
                       THEN "commerce.productListRemovals"
                       ELSE "commerce.productListUpdates",
         timestamp |-> toISOString(now),
         identities |-> ResolveIdentities(p),
         loginStatus |-> loginStatus(p.profile),
         counters |-> IF p.transactionType = "remove_from_cart"
                      THEN [productListRemovals |-> 1]
                      ELSE [productListUpdates |-> 1],
         transactionType |-> p.transactionType,
         productListItems |->
             IF p.cartSessionId # Null
             THEN formatProductListItems(p.productListItems[1], p.cartSessionId)
             ELSE IF p.productListItems = <<>> THEN <<>>
             ELSE p.productListItems[1]])

\* buildLoginEvent: status and visitor type follow params.success
buildLoginEvent(p, now, draw) ==
    Some([id |-> eventId(now, draw),
          eventType |-> "mobileApp.navigation.clicks",
          timestamp |-> toISOString(now),
          identities |-> ResolveIdentities(p),
          loginStatus |-> IF p.success THEN "logged-in" ELSE "login-failed",
          visitorType |-> IF p.success THEN "Customer" ELSE "Guest",
          participantName |-> participantName(p.profile),
          counters |-> IF p.success THEN [linkClicks |-> 1, signInSuccess |-> 1]
                       ELSE [linkClicks |-> 1, signInFailure |-> 1],
          transactionType |-> IF p.success THEN "login_success" ELSE "login_failure"])

\* buildLogoutEvent
buildLogoutEvent(p, now, draw) ==
    Some([id |-> eventId(now, draw),
          eventType |-> "mobileApp.navigation.clicks",
          timestamp |-> toISOString(now),
          identities |-> ResolveIdentities(p),
          loginStatus |-> "logged-out",
          visitorType |-> "Guest",
          participantName |-> <<"g", "u", "e", "s", "t", " ", "u", "s", "e", "r">>,
          counters |-> [linkClicks |-> 1, loggoffSuccess |-> 1],
          transactionType |-> "logout"])

\* buildProductViewEvent: one line item without a cartID; rejects when
\* params.product is undefined (params.product.sku)
buildProductViewEvent(p, now, draw) ==
    IF p.product = <<>> THEN Undefined
    ELSE Some(Merge(
        [id |-> eventId(now, draw),
         eventType |-> "commerce.productViews",
         timestamp |-> toISOString(now),
         loginStatus |-> loginStatus(p.profile),
         visitorType |-> visitorType(p.profile),
         participantName |-> participantName(p.profile),
         counters |-> [productViews |-> 1],
         productListItems |->
             <<[SKU |-> p.product[1].sku, name |-> p.product[1].name,
                priceTotal |-> p.product[1].price, quantity |-> 1,
                unitPrice |-> p.product[1].price]>>],
        TenantData(p)))

\* buildProductListAddEvent pricing the line item as price times quantity
buildProductListAddEvent_extended(p, now, draw) ==
    IF p.product = <<>> THEN Undefined
    ELSE Some(Merge(
        [id |-> eventId(now, draw),
         eventType |-> "commerce.productListAdds",
         timestamp |-> toISOString(now),
         loginStatus |-> loginStatus(p.profile),
         visitorType |-> visitorType(p.profile),
         participantName |-> participantName(p.profile),
         counters |-> [productListAdds |-> 1],
         transactionType |-> "add_to_cart",
         productListItems |->
             <<[SKU |-> p.product[1].sku, name |-> p.product[1].name,
                priceTotal |-> p.product[1].price * NumOr(p.product[1].quantity, 1),
                quantity |-> NumOr(p.product[1].quantity, 1),
                cartID |-> p.cartSessionId,
                unitPrice |-> p.product[1].price]>>],
        TenantData(p)))

\* buildProductListAddEvent: one line item tagged with the cart session id;
\* rejects when params.product is undefined
buildProductListAddEvent(p, now, draw) ==
    IF p.product = <<>> THEN Undefined
    ELSE Some(Merge(
        [id |-> eventId(now, draw),
         eventType |-> "commerce.productListAdds",
         timestamp |-> toISOString(now),
         loginStatus |-> loginStatus(p.profile),
         visitorType |-> visitorType(p.profile),
         participantName |-> participantName(p.profile),
         counters |-> [productListAdds |-> 1],
         transactionType |-> "add_to_cart",
         productListItems |->
             <<[SKU |-> p.product[1].sku, name |-> p.product[1].name,
                priceTotal |-> p.product[1].price,
                quantity |-> NumOr(p.product[1].quantity, 1),
                cartID |-> p.cartSessionId,
                unitPrice |-> p.product[1].price]>>],
        TenantData(p)))

\* the cart session ids an event's line items carry
CartIDsOf(ev) ==
    IF "productListItems" \in DOMAIN ev
    THEN {ev.productListItems[i].cartID :
            i \in {j \in 1..Len(ev.productListItems) :
                     "cartID" \in DOMAIN ev.productListItems[j]}}
    ELSE {}

----------------------------------------------------------------------------
(* The screens *)

\* Date.now() readings (scaled to TLC's integers) and Math.random() draws
Clock == {86399999, 172800000}
RandomDraws ==
    {<<>>, <<"i">>, <<"x", "3", "j", "9", "k", "2", "m", "4", "p">>,
     <<"x", "3", "j", "9", "k", "2", "m", "4", "p", "z", "0">>}

\* the clock reading and the random draw of the events the screens build
DispatchTime == CHOOSE t \in Clock : TRUE
DispatchDraw == CHOOSE d \in RandomDraws : Len(d) = 9

GuestProfile == [firstName |-> <<>>, email |-> <<>>]

\* "Get fresh profile from AsyncStorage": the stored profile when getItem
\* fulfils with one, else the guest profile
currentProfile(ok, stored) ==
    IF ok /\ stored # <<>> THEN stored ELSE Some(GuestProfile)

\* the identity map a screen holds once Identity.getIdentities() resolved
DeviceIdentityMap == [ECID |-> <<[id |-> <<"e", "1">>]>>]

\* the identityMap state of screen s: {} until getIdentities resolved
ScreenIdentityMap(s) == IF identityMap[s] THEN DeviceIdentityMap ELSE <<>>

Idle == [pc |-> "idle"]

\* what the model keeps of an event Edge.sendEvent accepted
Accepted(ev) ==
    [eventType |-> ev.eventType, cartIDs |-> CartIDsOf(ev)]

\* Edge.sendEvent(built): built is <<>> when the builder rejected
sendEvent(built, ok) == IF ok /\ built # <<>> THEN Accepted(built[1]) ELSE sent

\* `isCartSessionLoading || !cartSessionId`: the session is not ready
SessionNotReady(h) == h.isLoading \/ h.cartSessionId = Null

\* `cartSessionId || 'unknown'`
OrUnknown(cartSessionId) == IF cartSessionId = Null THEN Unknown ELSE cartSessionId

\* the handlers suspended in an await
InFlight ==
    Cardinality({h \in {"add", "rem", "chk", "pay", "pvCart", "pvCheckout"} :
        CASE h = "add" -> add.pc # "idle"
          [] h = "rem" -> rem.pc # "idle"
          [] h = "chk" -> chk.pc # "idle"
          [] h = "pay" -> pay.pc \notin {"idle", "confetti"}
          [] h = "pvCart" -> pv["CartTab"].pc # "idle"
          [] OTHER -> pv["Checkout"].pc # "idle"})

\* the user opens a tab or a product page
Navigate(to) ==
    /\ to \in {"home", "ProductDetail", "CartTab"}
    /\ focused # to
    /\ focused' = to
    /\ IF to \in Screens THEN Mount(to) ELSE UNCHANGED <<hook, identityMap>>
    /\ UNCHANGED <<storedCartSessionId, generated, cart, purchaseInProgress,
                   add, rem, pv, chk, pay, sent, profileVars, builderVars, pushVars, configVars>>

\* ProductDetail.handleAddToCart up to its first await
handleAddToCart(sku) ==
    /\ focused = "ProductDetail"
    /\ InFlight < MaxInFlight
    /\ add.pc = "idle"
    /\ cart' = addToCart(cart, sku)
    /\ \E ok \in BOOLEAN :
         add' = IF SessionNotReady(hook["ProductDetail"]) \/ ~identityMap["ProductDetail"]
                THEN Idle
                ELSE [pc |-> "sending", sku |-> sku,
                      cartSessionId |-> hook["ProductDetail"].cartSessionId,
                      profile |-> currentProfile(ok, storedUserProfile)]
    /\ UNCHANGED <<storedCartSessionId, generated, hook, identityMap, focused,
                   purchaseInProgress, rem, pv, chk, pay, sent, profileVars, builderVars, pushVars, configVars>>

\* handleAddToCart builds the add event and Edge.sendEvent settles
AddSend ==
    /\ add.pc = "sending"
    /\ \E ok \in BOOLEAN :
         sent' = sendEvent(buildProductListAddEvent(
                     [identityMap |-> DeviceIdentityMap, profile |-> add.profile,
                      product |-> Some([sku |-> add.sku, name |-> add.sku,
                                        price |-> Price(add.sku), quantity |-> 1]),
                      cartSessionId |-> add.cartSessionId], DispatchTime, DispatchDraw), ok)
    /\ add' = Idle
    /\ UNCHANGED <<storedCartSessionId, generated, hook, identityMap, focused, cart,
                   purchaseInProgress, rem, pv, chk, pay, profileVars, builderVars, pushVars, configVars>>

\* CartTab.handleRemoveFromCart up to its first await
handleRemoveFromCart(sku) ==
    /\ focused = "CartTab"
    /\ InFlight < MaxInFlight
    /\ rem.pc = "idle"
    /\ InCart(cart, sku)
    /\ \E ok \in BOOLEAN :
         rem' = [pc |-> "sending", sku |-> sku,
                 identityMap |-> ScreenIdentityMap("CartTab"),
                 cartSessionId |-> OrUnknown(hook["CartTab"].cartSessionId),
                 profile |-> currentProfile(ok, storedUserProfile)]
    /\ UNCHANGED <<storedCartSessionId, generated, hook, identityMap, focused, cart,
                   purchaseInProgress, add, pv, chk, pay, sent, profileVars, builderVars, pushVars, configVars>>

\* handleRemoveFromCart builds the removal event, Edge.sendEvent settles and
\* the item leaves the cart
RemSend ==
    /\ rem.pc = "sending"
    /\ \E ok \in BOOLEAN :
         sent' = sendEvent(buildProductRemovalEvent(
                     [identityMap |-> rem.identityMap,
                      profile |-> rem.profile,
                      cartSessionId |-> rem.cartSessionId,
                      productListItems |-> Some(modifiedCart(<<rem.sku>>))],
                     DispatchTime, DispatchDraw), ok)
    /\ cart' = removeFromCart(cart, rem.sku)
    /\ rem' = Idle
    /\ UNCHANGED <<storedCartSessionId, generated, hook, identityMap, focused,
                   purchaseInProgress, add, pv, chk, pay, profileVars, builderVars, pushVars, configVars>>

\* a focus effect that never looks at purchaseInProgress
SkipsPageView_never(s, inProgress) == FALSE

\* Checkout's handleFocus returns at once `if (purchaseInProgress)`; the
\* Cart tab's has no such check
SkipsPageView(s, inProgress) == s = "Checkout" /\ inProgress

\* the focus effect of CartTab / Checkout (handleFocus) up to its first
\* await; it runs when the screen gains focus and when its inputs change
handleFocus(s) ==
    /\ s \in {"CartTab", "Checkout"}
    /\ InFlight < MaxInFlight
    /\ focused = s
    /\ pv[s].pc = "idle"
    /\ ~SkipsPageView(s, purchaseInProgress)
    /\ ~SessionNotReady(hook[s])
    /\ identityMap[s]
    /\ \E ok \in BOOLEAN :
         pv' = [pv EXCEPT ![s] =
                  [pc |-> "sending", cartSessionId |-> hook[s].cartSessionId,
                   items |-> modifiedCart(cart),
                   profile |-> currentProfile(ok, storedUserProfile)]]
    /\ UNCHANGED <<storedCartSessionId, generated, hook, identityMap, focused, cart,
                   purchaseInProgress, add, rem, chk, pay, sent, profileVars, builderVars, pushVars, configVars>>

\* handleFocus builds the page view and Edge.sendEvent settles
PageViewSend(s) ==
    /\ s \in {"CartTab", "Checkout"}
    /\ pv[s].pc = "sending"
    /\ \E ok \in BOOLEAN :
         sent' = sendEvent(buildPageViewEvent(
                     [identityMap |-> DeviceIdentityMap, profile |-> pv[s].profile,
                      cartSessionId |-> pv[s].cartSessionId,
                      productListItems |-> Some(pv[s].items)], DispatchTime, DispatchDraw), ok)
    /\ pv' = [pv EXCEPT ![s] = Idle]
    /\ UNCHANGED <<storedCartSessionId, generated, hook, identityMap, focused, cart,
                   purchaseInProgress, add, rem, chk, pay, profileVars, builderVars, pushVars, configVars>>

\* navigation.navigate('Checkout')
NavigateCheckout ==
    /\ focused' = "Checkout"
    /\ Mount("Checkout")

\* the Checkout button of CartTab up to its first await
checkoutOnPress ==
    /\ focused = "CartTab"
    /\ InFlight < MaxInFlight
    /\ chk.pc = "idle"
    /\ cart # <<>>
    /\ IF hook["CartTab"].cartSessionId = Null \/ ~identityMap["CartTab"]
       THEN /\ NavigateCheckout
            /\ chk' = chk
       ELSE /\ \E ok \in BOOLEAN :
                 chk' = [pc |-> "sending",
                         cartSessionId |-> hook["CartTab"].cartSessionId,
                         items |-> modifiedCart(cart),
                         profile |-> currentProfile(ok, storedUserProfile)]
            /\ UNCHANGED <<focused, hook, identityMap>>
    /\ UNCHANGED <<storedCartSessionId, generated, cart, purchaseInProgress,
                   add, rem, pv, pay, sent, profileVars, builderVars, pushVars, configVars>>

\* the Checkout button builds the checkout event, Edge.sendEvent settles,
\* and the app navigates to Checkout whether or not it was sent
CheckoutSend ==
    /\ chk.pc = "sending"
    /\ \E ok \in BOOLEAN :
         sent' = sendEvent(buildCheckoutEvent(
                     [identityMap |-> DeviceIdentityMap, profile |-> chk.profile,
                      cartSessionId |-> chk.cartSessionId,
                      productListItems |-> Some(chk.items)], DispatchTime, DispatchDraw), ok)
    /\ chk' = Idle
    /\ NavigateCheckout
    /\ UNCHANGED <<storedCartSessionId, generated, cart, purchaseInProgress,
                   add, rem, pv, pay, profileVars, builderVars, pushVars, configVars>>

\* cart.reduce((total, item) => total + item.price * item.quantity, 0)
RECURSIVE totalAmount(_)
totalAmount(items) ==
    IF items = <<>> THEN 0
    ELSE Head(items).price * Head(items).quantity + totalAmount(Tail(items))

\* Checkout.handlePayment up to its first await; the button can be pressed
\* while the screen's own page view is still in flight
handlePayment ==
    /\ focused = "Checkout"
    /\ InFlight < MaxInFlight + (IF pv["Checkout"].pc = "idle" THEN 0 ELSE 1)
    /\ pay.pc = "idle"
    /\ purchaseInProgress' = TRUE
    /\ \E ok \in BOOLEAN :
         pay' = [pc |-> "sending",
                 identityMap |-> ScreenIdentityMap("Checkout"),
                 cartSessionId |-> OrUnknown(hook["Checkout"].cartSessionId),
                 items |-> modifiedCart(cart),
                 profile |-> currentProfile(ok, storedUserProfile),
                 purchaseSent |-> FALSE]
    /\ UNCHANGED <<storedCartSessionId, generated, hook, identityMap, focused, cart,
                   add, rem, pv, chk, sent, profileVars, builderVars, pushVars, configVars>>

\* afterPurchaseSend with the send outside the try block: the handler goes
\* on to the refresh and the reset whether or not the send succeeded
afterPurchaseSend_always(accepted) == "refreshing"

\* where handlePayment continues once Edge.sendEvent(purchaseEvent) settled:
\* on to the message refresh and the reset, or into the catch block
afterPurchaseSend(accepted) == IF accepted THEN "refreshing" ELSE "confetti"

\* handlePayment builds the purchase event and Edge.sendEvent settles
PurchaseSend ==
    /\ pay.pc = "sending"
    /\ \E ok \in BOOLEAN :
         LET built == buildPurchaseEvent(
                          [identityMap |-> pay.identityMap, profile |-> pay.profile,
                           purchaseID |-> "order", cartSessionId |-> pay.cartSessionId,
                           productListItems |-> Some(pay.items),
                           priceTotal |-> totalAmount(pay.items),
                           currencyCode |-> "USD"], DispatchTime, DispatchDraw)
             accepted == ok /\ built # <<>>
         IN /\ sent' = sendEvent(built, ok)
            /\ pay' = [pc |-> afterPurchaseSend(accepted),
                       cartSessionId |-> pay.cartSessionId,
                       purchaseSent |-> accepted]
    /\ UNCHANGED <<storedCartSessionId, generated, hook, identityMap, focused, cart,
                   purchaseInProgress, add, rem, pv, chk, profileVars, builderVars, pushVars, configVars>>

\* resetCartSession up to its await: it generates the new id and suspends
\* in AsyncStorage.setItem
resetCartSession(h, n) ==
    [h EXCEPT !.resetPc = "writing", !.resetNewId = generateCartSessionId(n),
              !.resetResult = "pending", !.resetCaught = FALSE]

\* resetCartSession resumed after setItem: the hook's id becomes the new id
\* when the write succeeded, the catch block only logs; either way the
\* promise is fulfilled
resetAfterSetItem(h, ok) ==
    [h EXCEPT !.cartSessionId = IF ok THEN h.resetNewId ELSE @,
              !.resetPc = "idle", !.resetNewId = Null,
              !.resetResult = "fulfilled", !.resetCaught = ~ok]

\* Messaging.refreshInAppMessages() settles; when it succeeded handlePayment
\* calls resetCartSession and awaits it
RefreshInAppMessages ==
    /\ pay.pc = "refreshing"
    /\ \E ok \in BOOLEAN :
         IF ok
         THEN /\ generated < MaxIds
              /\ hook["Checkout"].resetPc = "idle"
              /\ generated' = generated + 1
              /\ hook' = [hook EXCEPT !["Checkout"] = resetCartSession(@, generated)]
              /\ pay' = [pay EXCEPT !.pc = "resetting"]
         ELSE /\ pay' = [pay EXCEPT !.pc = "confetti"]
              /\ UNCHANGED <<generated, hook>>
    /\ UNCHANGED <<storedCartSessionId, identityMap, focused, cart,
                   purchaseInProgress, add, rem, pv, chk, sent, profileVars, builderVars, pushVars, configVars>>

\* AsyncStorage.setItem settles inside resetCartSession of screen s; a
\* handlePayment awaiting it goes on to the confetti and its 3 s timer
ResetSetItem(s) ==
    /\ hook[s].resetPc = "writing"
    /\ \E ok \in BOOLEAN :
         /\ storedCartSessionId' = IF ok THEN hook[s].resetNewId
                                   ELSE storedCartSessionId
         /\ hook' = [hook EXCEPT ![s] = resetAfterSetItem(@, ok)]
    /\ pay' = IF s = "Checkout" /\ pay.pc = "resetting"
              THEN [pay EXCEPT !.pc = "confetti"] ELSE pay
    /\ UNCHANGED <<generated, identityMap, focused, cart, purchaseInProgress,
                   add, rem, pv, chk, sent, profileVars, builderVars, pushVars, configVars>>

\* the timer of handlePayment fires: router.replace('/home') and clearCart()
PaymentTimeout ==
    /\ pay.pc = "confetti"
    /\ focused' = "home"
    /\ cart' = <<>>
    /\ pay' = Idle
    /\ UNCHANGED <<storedCartSessionId, generated, hook, identityMap,
                   purchaseInProgress, add, rem, pv, chk, sent, profileVars, builderVars, pushVars, configVars>>

----------------------------------------------------------------------------
(* useProfileStorage and ProfileTab *)

\* the names, e-mail addresses and passwords the user may type
FirstNames == {<<>>, <<"A", "n", "n">>}
Emails == {<<>>, <<"A", "@", "b">>}
Passwords == {<<>>, <<"p", "w">>}

\* useProfileStorage before ProfileTab is mounted
ProfileStorageUnmounted ==
    [mounted |-> FALSE, profile |-> GuestProfile, isLoading |-> TRUE]

\* useState({ firstName: '', email: '' }), useState(true) and the mount
\* effect calling loadProfile, which suspends in AsyncStorage.getItem
ProfileStorageMounted ==
    [mounted |-> TRUE, profile |-> GuestProfile, isLoading |-> TRUE]

\* loadProfile resumed after getItem(PROFILE_KEY)
loadProfile(ps, ok, stored) ==
    [ps EXCEPT !.profile = IF ok /\ stored # <<>> THEN stored[1] ELSE @,
               !.isLoading = FALSE]

\* the setProfile that useProfileStorage returns: the state setter of
\* useState, which writes nothing to AsyncStorage
setProfile(ps, stored, newProfile) ==
    [storage |-> [ps EXCEPT !.profile = newProfile], stored |-> stored]

\* ProfileTab as first rendered
ProfileTabInit ==
    [loggedIn |-> FALSE, firstName |-> <<>>, email |-> <<>>,
     inputFirstName |-> <<>>, inputEmail |-> <<>>, inputPassword |-> <<>>,
     error |-> <<>>, identityMap |-> FALSE, logoutIdentityMap |-> <<>>,
     pc |-> "idle"]

\* the effect "Restore login state if profile exists in storage", run after
\* the hook's profile changed
restoreLogin(tab, profile) ==
    IF Truthy(profile.firstName) /\ Truthy(profile.email)
    THEN [tab EXCEPT !.loggedIn = TRUE, !.firstName = profile.firstName,
                     !.email = profile.email]
    ELSE tab

\* the identityMap state of ProfileTab
ProfileIdentityMap == IF profileTab.identityMap THEN DeviceIdentityMap ELSE <<>>

\* the first visit of the profile tab mounts it
MountProfileTab ==
    /\ ~profileStorage.mounted
    /\ profileStorage' = ProfileStorageMounted
    /\ profileTab' = ProfileTabInit
    /\ UNCHANGED <<cartVars, storedUserProfile, builderVars, pushVars, configVars>>

\* AsyncStorage.getItem(PROFILE_KEY) settles inside loadProfile
ProfileLoaded ==
    /\ profileStorage.mounted /\ profileStorage.isLoading
    /\ \E ok \in BOOLEAN :
         LET ps == loadProfile(profileStorage, ok, storedUserProfile) IN
         /\ profileStorage' = ps
         /\ profileTab' = restoreLogin(profileTab, ps.profile)
    /\ UNCHANGED <<cartVars, storedUserProfile, builderVars, pushVars, configVars>>

\* Identity.getIdentities() of the mount effect resolves
ProfileIdentityResolved ==
    /\ profileStorage.mounted /\ ~profileTab.identityMap
    /\ profileTab' = [profileTab EXCEPT !.identityMap = TRUE]
    /\ UNCHANGED <<cartVars, storedUserProfile, profileStorage, builderVars, pushVars, configVars>>

\* the user fills in the login form
onChangeText(name, mail, password) ==
    /\ profileStorage.mounted /\ ~profileTab.loggedIn /\ profileTab.pc = "idle"
    /\ <<name, mail, password>> #
         <<profileTab.inputFirstName, profileTab.inputEmail, profileTab.inputPassword>>
    /\ profileTab' = [profileTab EXCEPT !.inputFirstName = name,
                                        !.inputEmail = mail,
                                        !.inputPassword = password]
    /\ UNCHANGED <<cartVars, storedUserProfile, profileStorage, builderVars, pushVars, configVars>>

\* `!inputFirstName || !inputEmail || !inputPassword`
FormIncomplete(tab) ==
    ~Truthy(tab.inputFirstName) \/ ~Truthy(tab.inputEmail) \/ ~Truthy(tab.inputPassword)

\* ProfileTab.handleLogin up to its first await
handleLogin ==
    /\ profileStorage.mounted /\ ~profileTab.loggedIn /\ profileTab.pc = "idle"
    /\ IF FormIncomplete(profileTab)
       THEN /\ profileTab' = [profileTab EXCEPT !.error = <<"Please fill in all fields.">>]
            /\ UNCHANGED <<storedUserProfile, profileStorage>>
       ELSE LET entered == [firstName |-> profileTab.inputFirstName,
                            email |-> profileTab.inputEmail]
                saved == setProfile(profileStorage, storedUserProfile, entered)
            IN /\ storedUserProfile' = saved.stored
               /\ profileStorage' = saved.storage
               /\ profileTab' = restoreLogin(
                      [profileTab EXCEPT !.firstName = entered.firstName,
                                         !.email = entered.email,
                                         !.loggedIn = TRUE, !.error = <<>>,
                                         !.pc = "loginIdentities"],
                      saved.storage.profile)
    /\ UNCHANGED <<cartVars, builderVars, pushVars, configVars>>

\* `await Identity.getIdentities()` of handleLogin settles
LoginIdentities ==
    /\ profileTab.pc = "loginIdentities"
    /\ \E ok \in BOOLEAN :
         profileTab' = [profileTab EXCEPT !.pc = IF ok THEN "loginSending" ELSE "idle"]
    /\ UNCHANGED <<cartVars, storedUserProfile, profileStorage, builderVars, pushVars, configVars>>

\* handleLogin builds the login event and Edge.sendEvent settles
LoginSend ==
    /\ profileTab.pc = "loginSending"
    /\ \E ok \in BOOLEAN :
         LET event == buildLoginEvent(
                          [identityMap |-> DeviceIdentityMap,
                           profile |-> Some([firstName |-> profileTab.inputFirstName,
                                             email |-> profileTab.inputEmail]),
                           success |-> TRUE], DispatchTime, DispatchDraw)
         IN /\ sent' = sendEvent(event, ok)
            /\ profileTab' = [profileTab EXCEPT !.pc = "idle",
                                                !.identityMap = IF ok THEN TRUE ELSE @]
    /\ UNCHANGED <<storedCartSessionId, generated, hook, identityMap, focused, cart,
                   purchaseInProgress, add, rem, pv, chk, pay,
                   storedUserProfile, profileStorage, builderVars, pushVars, configVars>>

\* ProfileTab.handleLogout up to `await Edge.sendEvent(logoutEvent)`
handleLogout ==
    /\ profileStorage.mounted /\ profileTab.loggedIn /\ profileTab.pc = "idle"
    /\ profileTab' = [profileTab EXCEPT !.pc = "logoutSending",
                                        !.logoutIdentityMap = ProfileIdentityMap]
    /\ UNCHANGED <<cartVars, storedUserProfile, profileStorage, builderVars, pushVars, configVars>>

\* Edge.sendEvent(logoutEvent) settles; handleLogout then clears the local
\* state and calls setProfile({ firstName: '', email: '' })
LogoutSend ==
    /\ profileTab.pc = "logoutSending"
    /\ \E ok \in BOOLEAN :
         sent' = sendEvent(buildLogoutEvent(
                     [identityMap |-> profileTab.logoutIdentityMap,
                      profile |-> Some([firstName |-> profileTab.firstName,
                                        email |-> profileTab.email])],
                     DispatchTime, DispatchDraw), ok)
    /\ LET saved == setProfile(profileStorage, storedUserProfile, GuestProfile)
       IN /\ storedUserProfile' = saved.stored
          /\ profileStorage' = saved.storage
          /\ profileTab' = restoreLogin(
                 [profileTab EXCEPT !.loggedIn = FALSE, !.firstName = <<>>,
                                    !.email = <<>>, !.inputFirstName = <<>>,
                                    !.inputEmail = <<>>, !.inputPassword = <<>>,
                                    !.error = <<>>, !.logoutIdentityMap = <<>>,
                                    !.pc = "idle"],
                 saved.storage.profile)
    /\ UNCHANGED <<storedCartSessionId, generated, hook, identityMap, focused, cart,
                   purchaseInProgress, add, rem, pv, chk, pay, builderVars, pushVars, configVars>>

----------------------------------------------------------------------------
(* A call of one event builder *)

\* the arguments a builder may be called with
BuilderInputs ==
    [identityMap : {<<>>, DeviceIdentityMap},
     profile : {Undefined} \cup
               {Some([firstName |-> f, email |-> e]) : f \in FirstNames, e \in Emails},
     cartSessionId : {Null, 1},
     productListItems : {Undefined, Some(<<>>), Some(modifiedCart(<<"S1">>))},
     product : {Undefined, Some(CartItem("S1")), Some(CartItem("S2")),
                Some([CartItem("S1") EXCEPT !.quantity = 2])},
     transactionType : {"add_to_cart", "remove_from_cart"},
     success : BOOLEAN,
     purchaseID : {"order"}, priceTotal : {Price("S1")}, currencyCode : {"USD"},
     now : Clock, draw : RandomDraws]

NoCall == [builder |-> "none", event |-> Undefined]

\* the builders by name
Build(b) ==
    LET p == builderArgs IN
    CASE b = "buildPageViewEvent" -> buildPageViewEvent(p, p.now, p.draw)
      [] b = "buildCheckoutEvent" -> buildCheckoutEvent(p, p.now, p.draw)
      [] b = "buildProductRemovalEvent" -> buildProductRemovalEvent(p, p.now, p.draw)
      [] b = "buildPurchaseEvent" -> buildPurchaseEvent(p, p.now, p.draw)
      [] b = "buildProductInteractionEvent" ->
             buildProductInteractionEvent(p, p.now, p.draw)
      [] b = "buildLoginEvent" -> buildLoginEvent(p, p.now, p.draw)
      [] b = "buildLogoutEvent" -> buildLogoutEvent(p, p.now, p.draw)
      [] b = "buildProductViewEvent" -> buildProductViewEvent(p, p.now, p.draw)
      [] OTHER -> buildProductListAddEvent(p, p.now, p.draw)

Builders ==
    {"buildPageViewEvent", "buildCheckoutEvent", "buildProductRemovalEvent",
     "buildPurchaseEvent", "buildProductInteractionEvent", "buildLoginEvent",
     "buildLogoutEvent", "buildProductViewEvent", "buildProductListAddEvent"}

\* a caller awaits builder b on the arguments
CallBuilder(b) ==
    /\ builderResult' = [builder |-> b, event |-> Build(b)]
    /\ UNCHANGED <<cartVars, profileVars, builderArgs, pushVars, configVars>>

----------------------------------------------------------------------------
(* A call of one helper *)

\* the longest product list a helper call is given
MaxItems == 2

\* cart items as the screens pass them: price and quantity may be missing
\* or zero (0), the quantity may exceed one
ItemInputs ==
    [sku : {"S1", "S2"}, name : {"Tent"}, title : {""},
     price : {0, 50}, quantity : {0, 1, 2}]

RECURSIVE SeqsUpTo(_, _)
SeqsUpTo(S, n) ==
    IF n = 0 THEN {<<>>}
    ELSE LET shorter == SeqsUpTo(S, n - 1) IN
         shorter \cup {Append(q, x) : q \in {r \in shorter : Len(r) = n - 1}, x \in S}

\* the arguments of formatProductListItems
FormatInputs ==
    [fn : {"formatProductListItems"}, items : SeqsUpTo(ItemInputs, MaxItems),
     cartSessionId : {Null, 1, 2}]

\* email arguments: none, mixed case, lower case, padded, blank, another
EmailInputs ==
    {<<>>, <<"A", "@", "b">>, <<"a", "@", "b">>, <<" ", "a", "@", "b", " ">>,
     <<" ">>, <<"b", "@", "a">>}

\* the arguments of buildTenantIdentities
TenantInputs ==
    [fn : {"buildTenantIdentities"}, ecid : {<<>>, <<"1", "2">>},
     email : EmailInputs, phone : {<<>>, <<"+", "1">>}]

\* the arguments of two calls of hashEmail
HashInputs == [fn : {"hashEmail"}, email : EmailInputs, other : EmailInputs]


\* a caller applies formatProductListItems to the arguments
CallFormatProductListItems ==
    /\ builderArgs.fn = "formatProductListItems"
    /\ builderResult' =
           [builder |-> "formatProductListItems",
            event |-> formatProductListItems(builderArgs.items, builderArgs.cartSessionId)]
    /\ UNCHANGED <<cartVars, profileVars, builderArgs, pushVars, configVars>>

\* String.prototype.includes
includes(str, sub) ==
    \E i \in 0..(Len(str) - Len(sub)) : SubSeq(str, i + 1, i + Len(sub)) = sub

\* the data keys isAdobeMessage looks for
AdobeDataKeys ==
    {"adobe_message_id", "adobe_campaign_id", "adobe_journey_id", "adobe_offer_id",
     "adb_n_priority", "adb_n_visibility", "adb_uri"}

\* the sender markers isAdobeMessage looks for
AdobeSenderMarkers ==
    {<<"a", "d", "o", "b", "e">>, <<"j", "o", "u", "r", "n", "e", "y">>,
     <<"c", "a", "m", "p", "a", "i", "g", "n">>}

\* isAdobeMessage treating a key with an empty value as absent
isAdobeMessage_nonEmpty(remoteMessage) ==
    LET data == IF remoteMessage.data = <<>> THEN <<>> ELSE remoteMessage.data[1] IN
    IF \E k \in AdobeDataKeys \cap DOMAIN data : data[k] # <<>> THEN "true"
    ELSE IF remoteMessage.from = <<>> THEN "undefined"
    ELSE IF \E m \in AdobeSenderMarkers : includes(remoteMessage.from[1], m) THEN "true"
    ELSE "false"

\* isAdobeMessage: the value of the || chain, which is true at the first
\* marker found and otherwise the value of the last `from?.includes(...)`:
\* undefined when the message has no sender, false when it has one
isAdobeMessage(remoteMessage) ==
    LET data == IF remoteMessage.data = <<>> THEN <<>> ELSE remoteMessage.data[1] IN
    IF AdobeDataKeys \cap DOMAIN data # {} THEN "true"
    ELSE IF remoteMessage.from = <<>> THEN "undefined"
    ELSE IF \E m \in AdobeSenderMarkers : includes(remoteMessage.from[1], m) THEN "true"
    ELSE "false"

\* the most data keys an inbound message carries
MaxDataKeys == 2

\* the data of an inbound message: absent, or values ('' included) by key
MessageData ==
    {Undefined} \cup
    {Some([k \in K |-> v]) :
        K \in {D \in SUBSET (AdobeDataKeys \cup {"foo"}) : Cardinality(D) <= MaxDataKeys},
        v \in {<<>>, <<"b", "a", "r">>}}

\* the sender of an inbound message: absent or a sender id
MessageFrom ==
    {Undefined, Some(<<"1", "2">>), Some(<<"A", "d", "o", "b", "e">>),
     Some(<<"x", "a", "d", "o", "b", "e">>),
     Some(<<"j", "o", "u", "r", "n", "e", "y", "1">>),
     Some(<<"c", "a", "m", "p", "a", "i", "g", "n">>)}

\* the argument of isAdobeMessage
MessageInputs ==
    [fn : {"isAdobeMessage"}, remoteMessage : [data : MessageData, from : MessageFrom]]

HelperInputs == FormatInputs \cup TenantInputs \cup HashInputs \cup MessageInputs

\* the foreground listener asks isAdobeMessage about an inbound message
CallIsAdobeMessage ==
    /\ builderArgs.fn = "isAdobeMessage"
    /\ builderResult' = [builder |-> "isAdobeMessage",
                         event |-> isAdobeMessage(builderArgs.remoteMessage)]
    /\ UNCHANGED <<cartVars, profileVars, builderArgs, pushVars, configVars>>

\* a caller awaits buildTenantIdentities on the arguments
CallBuildTenantIdentities ==
    /\ builderArgs.fn = "buildTenantIdentities"
    /\ builderResult' =
           [builder |-> "buildTenantIdentities",
            event |-> buildTenantIdentities(builderArgs.ecid, builderArgs.email,
                                            builderArgs.phone)]
    /\ UNCHANGED <<cartVars, profileVars, builderArgs, pushVars, configVars>>

\* a caller awaits hashEmail on each of the two emails
CallHashEmail ==
    /\ builderArgs.fn = "hashEmail"
    /\ builderResult' =
           [builder |-> "hashEmail",
            event |-> [email |-> hashEmail(builderArgs.email),
                       other |-> hashEmail(builderArgs.other)]]
    /\ UNCHANGED <<cartVars, profileVars, builderArgs, pushVars, configVars>>

----------------------------------------------------------------------------
(* PushNotificationService: the singleton of adobeConfig.ts, the stored    *)
(* App ID it reads and the push state of the Adobe SDK it writes to        *)

\* foreground listeners the model lets messaging().onMessage register
MaxListeners == 2

\* the tokens the platform hands out: APNs device tokens and FCM tokens
ApnsTokens == {<<"a", "p", "n", "s">>}
FcmTokens == {<<"f", "c", "m", "1">>, <<"f", "c", "m", "2">>}

\* String.prototype.startsWith
startsWith(str, prefix) ==
    Len(str) >= Len(prefix) /\ SubSeq(str, 1, Len(prefix)) = prefix

\* `MockToken_${Date.now()}` and `AndroidMockToken_${Date.now()}`
MockToken(now) ==
    <<"M", "o", "c", "k", "T", "o", "k", "e", "n", "_">> \o Decimal(now)
AndroidMockToken(now) == <<"A", "n", "d", "r", "o", "i", "d">> \o MockToken(now)

\* a new PushNotificationService: both tokens null, no listener registered
PushNotificationService ==
    [expoPushToken |-> <<>>, devicePushToken |-> <<>>, listeners |-> 0]

\* the async methods of the service that suspend in an await
PushMethods == {"register", "current", "clear"}
OpIdle == [pc |-> "idle", token |-> <<>>, result |-> "none",
           attempted |-> {}, logged |-> {}]
Return(value) == [OpIdle EXCEPT !.result = value]

\* setupFCMMessageHandling: on Android messaging().onMessage adds one more
\* foreground listener (the unsubscribe handle is dropped); a throw is caught
setupFCMMessageHandling(svc, ok) ==
    IF device.os # "android" \/ ~ok THEN svc
    ELSE [svc EXCEPT !.listeners = @ + 1]

\* registerForPushNotifications up to the token request: null off a
\* physical device or without the notification permission
registerForPushNotifications ==
    /\ pushOps.register.pc = "idle"
    /\ \E granted \in BOOLEAN :
         pushOps' = [pushOps EXCEPT !.register =
                        IF device.isDevice /\ granted
                        THEN [OpIdle EXCEPT !.pc = "token"]
                        ELSE Return("null")]
    /\ UNCHANGED <<configVars, cartVars, profileVars, builderVars, device, adobe, push, delivered>>

\* the token request settles.  iOS: the device token is cached and the Expo
\* token is awaited next.  Android: the FCM token, or the Android mock token
\* when FCM is not authorised, is cached as expoPushToken and the message
\* handling is set up unless the token starts with 'Mock'.  A throw caches
\* `MockToken_...` instead.
RegisterGetToken ==
    /\ pushOps.register.pc = "token"
    /\ \E enabled \in BOOLEAN, ok \in BOOLEAN,
          got \in {Undefined} \cup
                  {Some(t) : t \in IF device.os = "ios" THEN ApnsTokens ELSE FcmTokens} :
         IF got = Undefined
         THEN /\ push' = [push EXCEPT !.expoPushToken = MockToken(DispatchTime)]
              /\ pushOps' = [pushOps EXCEPT !.register = Return("token")]
         ELSE IF device.os = "ios"
         THEN /\ push' = [push EXCEPT !.devicePushToken = got[1]]
              /\ pushOps' = [pushOps EXCEPT !.register.pc = "expo"]
         ELSE LET token == IF enabled THEN got[1] ELSE AndroidMockToken(DispatchTime)
                  cached == [push EXCEPT !.expoPushToken = token] IN
              /\ push.listeners < MaxListeners
              /\ push' = IF startsWith(token, <<"M", "o", "c", "k">>) THEN cached
                         ELSE setupFCMMessageHandling(cached, ok)
              /\ pushOps' = [pushOps EXCEPT !.register = Return("token")]
    /\ UNCHANGED <<configVars, cartVars, profileVars, builderVars, device, adobe, delivered>>

\* iOS: the Expo token request settles (its failure is caught) and the
\* device token the service holds now becomes the token used for Adobe
RegisterExpoToken ==
    /\ pushOps.register.pc = "expo"
    /\ push' = [push EXCEPT !.expoPushToken = push.devicePushToken]
    /\ pushOps' = [pushOps EXCEPT !.register = Return("token")]
    /\ UNCHANGED <<configVars, cartVars, profileVars, builderVars, device, adobe, delivered>>

\* testFCMMessageHandling: sets the message handling up again on Android
testFCMMessageHandling ==
    /\ push.listeners < MaxListeners
    /\ \E ok \in BOOLEAN : push' = setupFCMMessageHandling(push, ok)
    /\ UNCHANGED <<configVars, cartVars, profileVars, builderVars, device, adobe, pushOps, delivered>>

\* registerCurrentTokenWithAdobe up to getStoredAppId: false without a
\* cached token or with one that starts with 'Mock'
registerCurrentTokenWithAdobe ==
    /\ pushOps.current.pc = "idle"
    /\ pushOps' = [pushOps EXCEPT !.current =
                      IF push.expoPushToken = <<>>
                         \/ startsWith(push.expoPushToken, <<"M", "o", "c", "k">>)
                      THEN Return("false")
                      ELSE [OpIdle EXCEPT !.pc = "getStoredAppId",
                                          !.token = push.expoPushToken]]
    /\ UNCHANGED <<configVars, cartVars, profileVars, builderVars, device, adobe, push, delivered>>

\* getStoredAppId settles (null when AsyncStorage fails): false without an
\* App ID, else registerTokenWithAdobe is called with the captured token
CurrentGetStoredAppId ==
    /\ pushOps.current.pc = "getStoredAppId"
    /\ \E ok \in BOOLEAN :
         pushOps' = [pushOps EXCEPT !.current =
                        IF ok /\ adobe.appId # <<>>
                        THEN [@ EXCEPT !.pc = "registerTokenWithAdobe"]
                        ELSE Return("false")]
    /\ UNCHANGED <<configVars, cartVars, profileVars, builderVars, device, adobe, push, delivered>>

\* registerTokenWithAdobe: reads the App ID again and, when there is one,
\* MobileCore.setPushIdentifier(token); every failure is caught, so the
\* caller returns true
CurrentRegisterToken ==
    /\ pushOps.current.pc = "registerTokenWithAdobe"
    /\ \E okGet \in BOOLEAN, okSet \in BOOLEAN :
         LET called == okGet /\ adobe.appId # <<>> IN
         /\ adobe' = IF called /\ okSet
                     THEN [adobe EXCEPT !.pushIdentifier = Some(pushOps.current.token)]
                     ELSE adobe
         /\ pushOps' = [pushOps EXCEPT !.current =
                           [Return("true") EXCEPT
                               !.token = pushOps.current.token,
                               !.attempted = IF called THEN {"setPushIdentifier"} ELSE {},
                               !.logged = IF called /\ ~okSet
                                          THEN {"setPushIdentifier"} ELSE {}]]
    /\ UNCHANGED <<configVars, cartVars, profileVars, builderVars, device, push, delivered>>

\* clearAdobePushTokens with one try/catch around both steps: a failed
\* setPushIdentifier('') skips resetIdentities() and returns false
clearAdobePushTokens_abort(sdk, okSet, okReset) ==
    IF ~okSet
    THEN [sdk |-> sdk, attempted |-> {"setPushIdentifier"},
          logged |-> {"setPushIdentifier"}, result |-> "false"]
    ELSE [sdk |-> [sdk EXCEPT !.pushIdentifier = Some(<<>>),
                              !.identities = IF okReset THEN "reset" ELSE @],
          attempted |-> {"setPushIdentifier", "resetIdentities"},
          logged |-> {st \in {"resetIdentities"} : ~okReset},
          result |-> "true"]

\* clearAdobePushTokens from the settling of MobileCore.setPushIdentifier('')
\* to the return: each step sits in a try/catch of its own that logs
clearAdobePushTokens(sdk, okSet, okReset) ==
    [sdk |-> [sdk EXCEPT !.pushIdentifier = IF okSet THEN Some(<<>>) ELSE @,
                         !.identities = IF okReset THEN "reset" ELSE @],
     attempted |-> {"setPushIdentifier", "resetIdentities"},
     logged |-> {st \in {"setPushIdentifier"} : ~okSet}
                \cup {st \in {"resetIdentities"} : ~okReset},
     result |-> "true"]

\* the user presses "Clear Adobe Push Tokens (Fix Mismatch)"
ClearStart ==
    /\ pushOps.clear.pc = "idle"
    /\ pushOps' = [pushOps EXCEPT !.clear = [OpIdle EXCEPT !.pc = "setPushIdentifier"]]
    /\ UNCHANGED <<configVars, cartVars, profileVars, builderVars, device, adobe, push, delivered>>

\* setPushIdentifier('') settles, resetIdentities() runs, the method returns
ClearSettle ==
    /\ pushOps.clear.pc = "setPushIdentifier"
    /\ \E okSet \in BOOLEAN, okReset \in BOOLEAN :
         LET r == clearAdobePushTokens(adobe, okSet, okReset) IN
         /\ adobe' = r.sdk
         /\ pushOps' = [pushOps EXCEPT !.clear =
                           [OpIdle EXCEPT !.attempted = r.attempted,
                                          !.logged = r.logged,
                                          !.result = r.result]]
    /\ UNCHANGED <<configVars, cartVars, profileVars, builderVars, device, push, delivered>>

\* inbound FCM messages: with or without data, with or without a
\* notification part
InboundMessages ==
    [data : {Undefined, Some([adb_uri |-> <<>>]), Some([foo |-> <<"b", "a", "r">>])},
     from : {Undefined}, notification : BOOLEAN]

NoMessage == [received |-> FALSE, notifications |-> 0]

\* what one foreground listener does with a message: an Adobe message, a
\* message with a notification part and a data-only message each schedule
\* one local notification
Schedules(remoteMessage) ==
    \/ isAdobeMessage(remoteMessage) = "true"
    \/ remoteMessage.notification
    \/ remoteMessage.data # <<>>

\* FCM delivers a foreground message to every registered listener; a
\* listener's scheduleLocalNotification may fail
onMessage ==
    /\ \E remoteMessage \in InboundMessages, failed \in 0..push.listeners :
         delivered' = [received |-> TRUE,
                       notifications |-> IF Schedules(remoteMessage)
                                         THEN push.listeners - failed ELSE 0]
    /\ UNCHANGED <<configVars, cartVars, profileVars, builderVars, device, adobe, push, pushOps>>

----------------------------------------------------------------------------
(* AssuranceView: the Assurance session URL the operator enters, the copy  *)
(* of it in AsyncStorage and the calls of Assurance.startSession           *)

\* 'adb_validation_sessionid='
SessionIdParameter ==
    <<"a", "d", "b", "_", "v", "a", "l", "i", "d", "a", "t", "i", "o", "n", "_", "s", "e", "s", "s", "i", "o", "n", "i", "d", "=">>

\* what the operator may type: nothing, blanks, a URL without the
\* parameter, a URL with it, the same padded with blanks
UrlInputs ==
    {<<>>, <<" ">>, <<"x">>, <<"x">> \o SessionIdParameter \o <<"1">>,
     <<" ", "x">> \o SessionIdParameter \o <<"1", " ">>}

AssuranceUnmounted ==
    [mounted |-> FALSE, initPc |-> "idle", sessionURL |-> <<>>, pc |-> "idle",
     url |-> <<>>, alert |-> "none", outcome |-> "none", isSessionActive |-> FALSE]

\* the screen's handler has returned with the given alert and outcome
AssuranceDone(a, alert, outcome) ==
    [a EXCEPT !.pc = "idle", !.alert = alert, !.outcome = outcome]

\* the screen mounts and its effect starts initializeAssurance
MountAssurance ==
    /\ ~assurance.mounted
    /\ assurance' = [AssuranceUnmounted EXCEPT !.mounted = TRUE, !.initPc = "loading"]
    /\ UNCHANGED <<cartVars, profileVars, builderVars, pushVars, storedAssuranceURL,
                   startSessionCalls, startup>>

\* initializeAssurance settles: a saved URL is put into the input field,
\* no session is started; a failure is caught
AssuranceLoaded ==
    /\ assurance.initPc = "loading"
    /\ \E ok \in BOOLEAN :
         assurance' = [assurance EXCEPT
                          !.initPc = "done",
                          !.sessionURL = IF ok /\ storedAssuranceURL # <<>>
                                         THEN storedAssuranceURL ELSE @]
    /\ UNCHANGED <<cartVars, profileVars, builderVars, pushVars, storedAssuranceURL,
                   startSessionCalls, startup>>

\* the operator edits the URL field (onChangeText = setSessionURL)
setSessionURL(text) ==
    /\ assurance.mounted
    /\ assurance' = [assurance EXCEPT !.sessionURL = text]
    /\ UNCHANGED <<cartVars, profileVars, builderVars, pushVars, storedAssuranceURL,
                   startSessionCalls, startup>>

\* startSessionClicked up to getStoredAppId, with the URL of this render
startSessionClicked ==
    /\ assurance.mounted
    /\ assurance.pc = "idle"
    /\ assurance' = [assurance EXCEPT !.pc = "getStoredAppId", !.url = assurance.sessionURL,
                                      !.alert = "none", !.outcome = "none"]
    /\ UNCHANGED <<cartVars, profileVars, builderVars, pushVars, storedAssuranceURL,
                   startSessionCalls, startup>>

\* the format check accepting every non-empty URL
ValidAssuranceURL_nonEmpty(trimmedURL) == trimmedURL # <<>>

\* the format check: trimmedURL.includes('adb_validation_sessionid=')
ValidAssuranceURL(trimmedURL) == includes(trimmedURL, SessionIdParameter)

\* getStoredAppId settles: an alert and a return without an App ID, with
\* a blank URL or with a URL that fails the format check; else the
\* trimmed URL is handed to AsyncStorage.setItem
StartGetStoredAppId ==
    /\ assurance.pc = "getStoredAppId"
    /\ \E ok \in BOOLEAN :
         LET trimmedURL == trim(assurance.url) IN
         assurance' =
            IF ~(ok /\ adobe.appId # <<>>)
            THEN AssuranceDone(assurance, "App ID Required", "rejected")
            ELSE IF trimmedURL = <<>>
            THEN AssuranceDone(assurance, "Error", "rejected")
            ELSE IF ~ValidAssuranceURL(trimmedURL)
            THEN AssuranceDone(assurance, "Invalid URL", "rejected")
            ELSE [assurance EXCEPT !.pc = "setItem"]
    /\ UNCHANGED <<cartVars, profileVars, builderVars, pushVars, storedAssuranceURL,
                   startSessionCalls, startup>>

\* setItem settles: the trimmed URL is saved and (after a diagnostic read
\* of the store) Assurance.startSession is called with it; a failed write
\* leads to the outer catch
StartSetItem ==
    /\ assurance.pc = "setItem"
    /\ \E ok \in BOOLEAN :
         IF ok
         THEN /\ storedAssuranceURL' = trim(assurance.url)
              /\ startSessionCalls' = startSessionCalls \cup {trim(assurance.url)}
              /\ assurance' = [assurance EXCEPT !.pc = "startSession"]
         ELSE /\ assurance' = [assurance EXCEPT !.pc = "removeItem"]
              /\ UNCHANGED <<storedAssuranceURL, startSessionCalls>>
    /\ UNCHANGED <<cartVars, profileVars, builderVars, pushVars, startup>>

\* Assurance.startSession settles: its failure is caught by the inner
\* catch, which alerts 'Session Already Active' and returns
StartSessionSettles ==
    /\ assurance.pc = "startSession"
    /\ \E ok \in BOOLEAN :
         assurance' = IF ok THEN [assurance EXCEPT !.pc = "extensionVersion"]
                      ELSE AssuranceDone(assurance, "Session Already Active",
                                         "startSessionFailed")
    /\ UNCHANGED <<cartVars, profileVars, builderVars, pushVars, storedAssuranceURL,
                   startSessionCalls, startup>>

\* Assurance.extensionVersion settles: a failure leads to the outer catch;
\* else the session is shown active and the connection check may alert
StartExtensionVersion ==
    /\ assurance.pc = "extensionVersion"
    /\ \E ok \in BOOLEAN, isReallyConnected \in BOOLEAN :
         assurance' =
            IF ~ok THEN [assurance EXCEPT !.pc = "removeItem"]
            ELSE [AssuranceDone(assurance,
                                IF isReallyConnected THEN "none" ELSE "Connection Issue",
                                "started")
                    EXCEPT !.isSessionActive = TRUE]
    /\ UNCHANGED <<cartVars, profileVars, builderVars, pushVars, storedAssuranceURL,
                   startSessionCalls, startup>>

\* the outer catch: the saved URL is removed and 'Error' is alerted; when
\* removeItem fails the handler rejects before the alert
StartRemoveItem ==
    /\ assurance.pc = "removeItem"
    /\ \E ok \in BOOLEAN :
         /\ storedAssuranceURL' = IF ok THEN <<>> ELSE storedAssuranceURL
         /\ assurance' = AssuranceDone(assurance, IF ok THEN "Error" ELSE "none", "failed")
    /\ UNCHANGED <<cartVars, profileVars, builderVars, pushVars, startSessionCalls, startup>>

\* clearAssuranceSession: removes the saved URL and empties the field
clearAssuranceSession ==
    /\ assurance.mounted
    /\ \E ok \in BOOLEAN :
         IF ok
         THEN /\ storedAssuranceURL' = <<>>
              /\ assurance' = [assurance EXCEPT !.sessionURL = <<>>,
                                                !.isSessionActive = FALSE,
                                                !.alert = "Session Cleared"]
         ELSE /\ assurance' = [assurance EXCEPT !.alert = "Error"]
              /\ UNCHANGED storedAssuranceURL
    /\ UNCHANGED <<cartVars, profileVars, builderVars, pushVars, startSessionCalls, startup>>

\* RootLayout's effect has not run initAdobe yet
StartupInit == [pc |-> "getStoredAppId", initializeWithAppId |-> <<>>, threw |-> FALSE]

\* initAdobe calling configureAdobe whatever getStoredAppId returned
initAdobe_unconditional(st, appId) ==
    [st EXCEPT !.pc = "configureAdobe", !.initializeWithAppId = Some(appId)]

\* initAdobe after getStoredAppId: `if (appId)` configureAdobe(appId), whose
\* first await is MobileCore.initializeWithAppId(appId)
initAdobe(st, appId) ==
    IF appId # <<>>
    THEN [st EXCEPT !.pc = "configureAdobe", !.initializeWithAppId = Some(appId)]
    ELSE [st EXCEPT !.pc = "done"]

\* getStoredAppId settles for initAdobe (null when AsyncStorage fails)
StartupGetStoredAppId ==
    /\ startup.pc = "getStoredAppId"
    /\ \E ok \in BOOLEAN :
         startup' = initAdobe(startup, IF ok THEN adobe.appId ELSE <<>>)
    /\ UNCHANGED <<cartVars, profileVars, builderVars, pushVars, storedAssuranceURL,
                   assurance, startSessionCalls>>

\* configureAdobe settles: it rethrows its failure and initAdobe's catch
\* logs it
StartupConfigureAdobe ==
    /\ startup.pc = "configureAdobe"
    /\ startup' = [startup EXCEPT !.pc = "done"]
    /\ UNCHANGED <<cartVars, profileVars, builderVars, pushVars, storedAssuranceURL,
                   assurance, startSessionCalls>>

\* the process is killed and the app started again: memory is lost, the
\* stores are kept
Restart ==
    /\ hook' = [s \in Screens |-> HookUnmounted]
    /\ identityMap' = [s \in Screens |-> FALSE]
    /\ focused' = "home"
    /\ cart' = <<>>
    /\ purchaseInProgress' = FALSE
    /\ add' = Idle /\ rem' = Idle /\ chk' = Idle /\ pay' = Idle
    /\ pv' = [s \in {"CartTab", "Checkout"} |-> Idle]
    /\ profileStorage' = ProfileStorageUnmounted
    /\ profileTab' = ProfileTabInit
    /\ push' = PushNotificationService
    /\ pushOps' = [op \in PushMethods |-> OpIdle]
    /\ assurance' = AssuranceUnmounted
    /\ startup' = StartupInit
    /\ UNCHANGED <<storedCartSessionId, generated, sent, storedUserProfile,
                   builderVars, device, adobe, delivered, storedAssuranceURL,
                   startSessionCalls>>

----------------------------------------------------------------------------
(* Specifications *)

\* the cart screens after the app started
InitCart ==
    /\ storedCartSessionId = Null
    /\ generated = 0
    /\ hook = [s \in Screens |-> HookUnmounted]
    /\ identityMap = [s \in Screens |-> FALSE]
    /\ focused = "home"
    /\ cart = <<>>
    /\ purchaseInProgress = FALSE
    /\ add = Idle /\ rem = Idle /\ chk = Idle /\ pay = Idle
    /\ pv = [s \in {"CartTab", "Checkout"} |-> Idle]
    /\ sent = [eventType |-> "none", cartIDs |-> {}]

InitProfile ==
    /\ storedUserProfile = <<>>
    /\ profileStorage = ProfileStorageUnmounted
    /\ profileTab = ProfileTabInit

InitBuilder ==
    /\ builderArgs = CHOOSE p \in BuilderInputs : TRUE
    /\ builderResult = NoCall

\* the Assurance screen not opened, no URL saved, start-up not yet run
InitConfigIdle ==
    /\ storedAssuranceURL = <<>>
    /\ assurance = AssuranceUnmounted
    /\ startSessionCalls = {}
    /\ startup = StartupInit

\* the push service of a process that has not used it: an Android device
\* with no App ID stored and nothing registered with the SDK; the
\* configuration screens not opened either
InitPushIdle ==
    /\ device = [os |-> "android", isDevice |-> TRUE]
    /\ adobe = [appId |-> <<>>, pushIdentifier |-> Undefined, identities |-> "present"]
    /\ push = PushNotificationService
    /\ pushOps = [op \in PushMethods |-> OpIdle]
    /\ delivered = NoMessage
    /\ InitConfigIdle

Init == InitCart /\ InitProfile /\ InitBuilder /\ InitPushIdle

\* one run of the application on the cart screens
Next ==
    \/ \E s \in Screens : LoadGetItem(s)
    \/ \E s \in Screens : LoadSetItem(s)
    \/ \E s \in Screens : IdentityResolved(s)
    \/ \E to \in Places : Navigate(to)
    \/ \E sku \in Products : handleAddToCart(sku)
    \/ AddSend
    \/ \E sku \in Products : handleRemoveFromCart(sku)
    \/ RemSend
    \/ \E s \in Screens : handleFocus(s)
    \/ \E s \in Screens : PageViewSend(s)
    \/ checkoutOnPress
    \/ CheckoutSend
    \/ handlePayment
    \/ PurchaseSend
    \/ RefreshInAppMessages
    \/ \E s \in Screens : ResetSetItem(s)
    \/ PaymentTimeout

Spec == Init /\ [][Next]_vars

\* the Checkout screen from the moment it opens on a cart with one item,
\* the three hook instances still loading
InitCheckout ==
    /\ storedCartSessionId = Null
    /\ generated = 0
    /\ hook = [s \in Screens |-> HookMounted]
    /\ identityMap = [s \in Screens |-> FALSE]
    /\ focused = "Checkout"
    /\ cart = <<"S1">>
    /\ purchaseInProgress = FALSE
    /\ add = Idle /\ rem = Idle /\ chk = Idle /\ pay = Idle
    /\ pv = [s \in {"CartTab", "Checkout"} |-> Idle]
    /\ sent = [eventType |-> "none", cartIDs |-> {}]
    /\ InitProfile /\ InitBuilder /\ InitPushIdle

NextCheckout ==
    \/ \E s \in Screens : LoadGetItem(s)
    \/ \E s \in Screens : LoadSetItem(s)
    \/ \E s \in Screens : IdentityResolved(s)
    \/ handleFocus("Checkout")
    \/ PageViewSend("Checkout")
    \/ handlePayment
    \/ PurchaseSend
    \/ RefreshInAppMessages
    \/ ResetSetItem("Checkout")
    \/ PaymentTimeout

SpecCheckout == InitCheckout /\ [][NextCheckout]_vars

\* a screen calls useCartSession() for the first time
UseCartSession(s) ==
    /\ ~hook[s].mounted
    /\ Mount(s)
    /\ UNCHANGED <<storedCartSessionId, generated, focused, cart, purchaseInProgress,
                   add, rem, pv, chk, pay, sent, profileVars, builderVars, pushVars, configVars>>

\* the owner of the hook instance of screen s calls resetCartSession()
CallResetCartSession(s) ==
    /\ hook[s].mounted
    /\ hook[s].resetPc = "idle"
    /\ generated < MaxIds
    /\ generated' = generated + 1
    /\ hook' = [hook EXCEPT ![s] = resetCartSession(@, generated)]
    /\ UNCHANGED <<storedCartSessionId, identityMap, focused, cart, purchaseInProgress,
                   add, rem, pv, chk, pay, sent, profileVars, builderVars, pushVars, configVars>>

\* the hook on its own: mounts, loads, resets and restarts of the app
NextSession ==
    \/ \E s \in Screens : UseCartSession(s)
    \/ \E s \in Screens : LoadGetItem(s)
    \/ \E s \in Screens : LoadSetItem(s)
    \/ \E s \in Screens : CallResetCartSession(s)
    \/ \E s \in Screens : ResetSetItem(s)
    \/ Restart

SpecSession == Init /\ [][NextSession]_vars

\* the profile tab
NextProfile ==
    \/ MountProfileTab
    \/ ProfileLoaded
    \/ ProfileIdentityResolved
    \/ \E name \in FirstNames, mail \in Emails, password \in Passwords :
         onChangeText(name, mail, password)
    \/ handleLogin
    \/ LoginIdentities
    \/ LoginSend
    \/ handleLogout
    \/ LogoutSend
    \/ Restart

SpecProfile == Init /\ [][NextProfile]_vars

\* one builder call on any arguments
InitBuilders ==
    /\ InitCart /\ InitProfile
    /\ builderArgs \in BuilderInputs
    /\ builderResult = NoCall
    /\ InitPushIdle

NextBuilders == \E b \in Builders : CallBuilder(b)

SpecBuilders == InitBuilders /\ [][NextBuilders]_vars

\* one call of a helper of identityHelpers.ts on arguments drawn at the start
InitHelpers ==
    /\ InitCart /\ InitProfile
    /\ builderArgs \in HelperInputs
    /\ builderResult = NoCall
    /\ InitPushIdle

NextHelpers ==
    \/ CallFormatProductListItems
    \/ CallBuildTenantIdentities
    \/ CallHashEmail
    \/ CallIsAdobeMessage

SpecHelpers == InitHelpers /\ [][NextHelpers]_vars

\* the push screen: the platform, the stored App ID and the token the SDK
\* was left with by an earlier run are any of the possible ones
InitPush ==
    /\ InitCart /\ InitProfile /\ InitBuilder
    /\ device \in [os : {"ios", "android"}, isDevice : BOOLEAN]
    /\ adobe \in [appId : {<<>>, <<"a", "p", "p">>},
                  pushIdentifier : {Undefined, Some(<<"o", "l", "d">>)},
                  identities : {"present"}]
    /\ push = PushNotificationService
    /\ pushOps = [op \in PushMethods |-> OpIdle]
    /\ delivered = NoMessage
    /\ InitConfigIdle

NextPush ==
    \/ registerForPushNotifications
    \/ RegisterGetToken
    \/ RegisterExpoToken
    \/ testFCMMessageHandling
    \/ registerCurrentTokenWithAdobe
    \/ CurrentGetStoredAppId
    \/ CurrentRegisterToken
    \/ ClearStart
    \/ ClearSettle
    \/ onMessage

SpecPush == InitPush /\ [][NextPush]_vars

\* the Cart tab in focus with one product in the cart: the Product screen
\* and the Cart tab have mounted their hooks, whose loads are pending
InitCartTab ==
    /\ storedCartSessionId = Null
    /\ generated = 0
    /\ hook = [s \in Screens |-> IF s = "Checkout" THEN HookUnmounted ELSE HookMounted]
    /\ identityMap = [s \in Screens |-> FALSE]
    /\ focused = "CartTab"
    /\ cart = <<"S1">>
    /\ purchaseInProgress = FALSE
    /\ add = Idle /\ rem = Idle /\ chk = Idle /\ pay = Idle
    /\ pv = [s \in {"CartTab", "Checkout"} |-> Idle]
    /\ sent = [eventType |-> "none", cartIDs |-> {}]
    /\ InitProfile /\ InitBuilder /\ InitPushIdle

\* removal, checkout and payment starting from the Cart tab
NextCartTab ==
    \/ \E s \in Screens : LoadGetItem(s)
    \/ \E s \in Screens : LoadSetItem(s)
    \/ \E s \in Screens : IdentityResolved(s)
    \/ \E sku \in Products : handleRemoveFromCart(sku)
    \/ RemSend
    \/ checkoutOnPress
    \/ CheckoutSend
    \/ handlePayment
    \/ PurchaseSend
    \/ RefreshInAppMessages
    \/ ResetSetItem("Checkout")
    \/ PaymentTimeout

SpecCartTab == InitCartTab /\ [][NextCartTab]_vars

\* the service after registerForPushNotifications obtained an FCM token on
\* Android: the token is cached and one message listener is registered
RegisteredService ==
    [PushNotificationService EXCEPT !.expoPushToken = <<"f", "c", "m", "1">>,
                                    !.listeners = 1]

\* the configuration screens on an Android device, with an App ID stored
\* or not and with a push token obtained or not
InitConfig ==
    /\ InitCart /\ InitProfile /\ InitBuilder
    /\ device = [os |-> "android", isDevice |-> TRUE]
    /\ adobe \in [appId : {<<>>, <<"a", "p", "p">>}, pushIdentifier : {Undefined},
                  identities : {"present"}]
    /\ push \in {PushNotificationService, RegisteredService}
    /\ pushOps = [op \in PushMethods |-> OpIdle]
    /\ delivered = NoMessage
    /\ InitConfigIdle

\* the Assurance screen
NextAssurance ==
    \/ MountAssurance
    \/ AssuranceLoaded
    \/ \E text \in UrlInputs : setSessionURL(text)
    \/ startSessionClicked
    \/ StartGetStoredAppId
    \/ StartSetItem
    \/ StartSessionSettles
    \/ StartExtensionVersion
    \/ StartRemoveItem
    \/ clearAssuranceSession

SpecAssurance == InitConfig /\ [][NextAssurance]_vars

\* app start-up, the Assurance screen with a well-formed URL typed in and
\* the push screen's 'Register Token with Adobe Services' button
NextConfig ==
    \/ StartupGetStoredAppId
    \/ StartupConfigureAdobe
    \/ MountAssurance
    \/ AssuranceLoaded
    \/ setSessionURL(<<"x">> \o SessionIdParameter \o <<"1">>)
    \/ startSessionClicked
    \/ StartGetStoredAppId
    \/ StartSetItem
    \/ StartSessionSettles
    \/ StartExtensionVersion
    \/ StartRemoveItem
    \/ registerCurrentTokenWithAdobe
    \/ CurrentGetStoredAppId
    \/ CurrentRegisterToken

SpecConfig == InitConfig /\ [][NextConfig]_vars

----------------------------------------------------------------------------
(* Properties *)

\* an event carrying a cart session id is dispatched in this step
DispatchesCartEvent == sent' # sent /\ sent'.cartIDs # {}

\* resetCartSession of the Checkout hook has completed without an error
\* and its id is the one in the store
ResetCompleted ==
    /\ hook["Checkout"].pc = "done"
    /\ hook["Checkout"].resetResult = "fulfilled"
    /\ ~hook["Checkout"].resetCaught
    /\ hook["Checkout"].resetPc = "idle"
    /\ hook["Checkout"].cartSessionId = storedCartSessionId

\* C1: once resetCartSession has completed on Checkout, every cart event
\* dispatched from any screen carries the id now in the store, never the
\* id of the finished session (no hook being on an in-memory fallback id
\* and the event carrying a real id).
C1_EventsCarryStoredIdAfterReset ==
    [][(/\ ResetCompleted
        /\ \A s \in Screens : ~hook[s].caught
        /\ DispatchesCartEvent
        /\ Unknown \notin sent'.cartIDs)
         => sent'.cartIDs = {storedCartSessionId'}]_vars

\* C2: no cart event is dispatched with a null or placeholder ('unknown')
\* cart session id.
C2_NoPlaceholderIdDispatched == sent.cartIDs \cap {Null, Unknown} = {}

\* C3: in handlePayment resetCartSession starts only after Edge.sendEvent
\* accepted the purchase event; when the send fails the handler goes to
\* its catch block, starts no reset and leaves the id in the store and in
\* the hook as they were.
C3_ResetOnlyAfterPurchaseSent ==
    [][/\ (hook["Checkout"].resetPc = "idle" /\ hook'["Checkout"].resetPc = "writing")
            => (pay.pc = "refreshing" /\ pay.purchaseSent)
       /\ (pay.pc = "sending" /\ pay'.pc # "sending" /\ ~pay'.purchaseSent)
            => (pay'.pc = "confetti" /\ UNCHANGED <<storedCartSessionId, hook>>)
       /\ (pay.pc = "confetti" /\ ~pay.purchaseSent)
            => /\ hook'["Checkout"].resetPc = hook["Checkout"].resetPc
               /\ hook["Checkout"].pc = "done"
                    => hook'["Checkout"].cartSessionId = hook["Checkout"].cartSessionId
      ]_vars

\* C3 witness: the reset is under way after an accepted purchase event
C3_Witness ==
    /\ pay.pc = "resetting" /\ pay.purchaseSent
    /\ hook["Checkout"].resetPc = "writing"
    /\ sent.eventType = "commerce.purchases"

\* C4: when handlePayment has dispatched the purchase event, the cart
\* session id is replaced by a new one, in the store and in the hook, by
\* the time the handler leaves its try block (the hook having loaded its id
\* from a working store).
C4_PurchaseReplacesId ==
    (pay.pc = "confetti" /\ pay.purchaseSent /\ pay.cartSessionId # Unknown
       /\ ~hook["Checkout"].caught)
        => /\ hook["Checkout"].cartSessionId \notin {Null, pay.cartSessionId}
           /\ storedCartSessionId = hook["Checkout"].cartSessionId

\* C5: with a working store the load is idempotent: a load that finds an
\* id resolves to exactly that id and neither generates nor stores one, a
\* new id is generated and stored only when the store holds none, and the
\* stored id survives a restart.
C5_LoadIdempotent ==
    [][\A s \in Screens :
         /\ (hook[s].pc = "reading" /\ hook'[s].pc = "done" /\ ~hook'[s].caught)
              => /\ storedCartSessionId # Null
                 /\ hook'[s].cartSessionId = storedCartSessionId
                 /\ UNCHANGED <<storedCartSessionId, generated>>
         /\ (hook[s].pc = "reading" /\ hook'[s].pc = "writing")
              => /\ storedCartSessionId = Null
                 /\ UNCHANGED storedCartSessionId
         /\ (hook[s].pc = "writing" /\ hook'[s].pc = "done" /\ ~hook'[s].caught)
              => /\ storedCartSessionId' = hook'[s].cartSessionId
                 /\ UNCHANGED generated
         /\ (hook[s].mounted /\ ~hook'[s].mounted)
              => UNCHANGED storedCartSessionId
      ]_vars

\* C5 witness: two loads, one after the other, resolved to the one stored id
C5_Witness ==
    /\ generated = 1
    /\ \A s \in {"ProductDetail", "CartTab"} :
         /\ hook[s].pc = "done" /\ ~hook[s].caught
         /\ hook[s].cartSessionId = storedCartSessionId

\* C6: when resetCartSession settles on a hook that loaded its id from the
\* store, the hook's id differs from the one before the call and equals
\* the id in the store.
C6_ResetAlwaysReplaces ==
    [][\A s \in Screens :
         (hook[s].pc = "done" /\ ~hook[s].caught /\ hook[s].resetPc = "writing"
            /\ hook'[s].resetPc = "idle" /\ hook'[s].mounted)
           => /\ hook'[s].cartSessionId # hook[s].cartSessionId
              /\ hook'[s].cartSessionId = storedCartSessionId']_vars

\* C7: neither the load nor the reset rejects, and a load that has ended,
\* store available or not, left a non-null id and a cleared loading flag.
C7_LoadNeverFails ==
    \A s \in Screens :
      /\ hook[s].result # "rejected" /\ hook[s].resetResult # "rejected"
      /\ hook[s].pc = "done"
           => /\ hook[s].cartSessionId # Null
              /\ ~hook[s].isLoading
              /\ hook[s].result = "fulfilled"

\* C7 witness: a load ended on its fallback id while the store holds none
C7_Witness ==
    /\ storedCartSessionId = Null
    /\ hook["ProductDetail"].pc = "done" /\ hook["ProductDetail"].caught
    /\ hook["ProductDetail"].cartSessionId # Null
    /\ ~hook["ProductDetail"].isLoading

\* the event the builder returned, and whether the supplied profile has a
\* non-empty firstName
BuiltEvent == builderResult.event[1]
HasFirstName == builderArgs.profile # <<>> /\ builderArgs.profile[1].firstName # <<>>

IsDigits(str) == str # <<>> /\ \A i \in 1..Len(str) : str[i] \in Digits
IsBase36(str) == str # <<>> /\ \A i \in 1..Len(str) : str[i] \in Base36

\* {epoch-millis}-{random base36 suffix}
IsEventId(id) ==
    \E k \in 1..Len(id) :
        /\ id[k] = "-"
        /\ IsDigits(SubSeq(id, 1, k - 1))
        /\ IsBase36(SubSeq(id, k + 1, Len(id)))

\* an ISO-8601 UTC timestamp: a calendar day, a time of day, the zone Z
IsISO8601(ts) ==
    /\ ts.day >= 0 /\ ts.hh \in 0..23 /\ ts.mm \in 0..59 /\ ts.ss \in 0..59
    /\ ts.ms \in 0..999 /\ ts.zone = "Z"

\* C8: every event a builder returns carries a non-empty _id of the form
\* {epoch-millis}-{random base36 suffix} and an ISO-8601 timestamp
\* (Math.random() not having drawn exactly 0).
C8_EveryEventHasIdAndTimestamp ==
    (builderResult.event # <<>> /\ builderArgs.draw # <<>>)
        => /\ "id" \in DOMAIN BuiltEvent
           /\ IsEventId(BuiltEvent.id)
           /\ "timestamp" \in DOMAIN BuiltEvent
           /\ IsISO8601(BuiltEvent.timestamp)

\* C9 as claimed: every builder sets loginStatus to 'logged-in' exactly when
\* the profile has a non-empty firstName, else 'guest', and visitorType to
\* 'Customer' / 'Guest' by the same test.
C9_EveryBuilderFollowsProfile ==
    builderResult.event # <<>>
        => /\ BuiltEvent.loginStatus = IF HasFirstName THEN "logged-in" ELSE "guest"
           /\ "visitorType" \in DOMAIN BuiltEvent
           /\ BuiltEvent.visitorType = IF HasFirstName THEN "Customer" ELSE "Guest"

\* C9 as amended: the page-view, product-view, add, removal and purchase
\* builders set both fields from the profile's firstName; the checkout and
\* product-interaction builders set loginStatus that way and carry no
\* visitorType; the login builder sets 'logged-in'/'Customer' on success
\* and 'login-failed'/'Guest' otherwise; the logout builder always sets
\* 'logged-out'/'Guest'.
C9_LoginStatusPerBuilder ==
    builderResult.event # <<>>
        => CASE builderResult.builder = "buildLoginEvent" ->
                   /\ BuiltEvent.loginStatus =
                          IF builderArgs.success THEN "logged-in" ELSE "login-failed"
                   /\ BuiltEvent.visitorType =
                          IF builderArgs.success THEN "Customer" ELSE "Guest"
             [] builderResult.builder = "buildLogoutEvent" ->
                   /\ BuiltEvent.loginStatus = "logged-out"
                   /\ BuiltEvent.visitorType = "Guest"
             [] builderResult.builder \in
                    {"buildCheckoutEvent", "buildProductInteractionEvent"} ->
                   /\ BuiltEvent.loginStatus =
                          IF HasFirstName THEN "logged-in" ELSE "guest"
                   /\ "visitorType" \notin DOMAIN BuiltEvent
             [] OTHER ->
                   /\ BuiltEvent.loginStatus =
                          IF HasFirstName THEN "logged-in" ELSE "guest"
                   /\ BuiltEvent.visitorType =
                          IF HasFirstName THEN "Customer" ELSE "Guest"

\* C9 witness: a page view built with no profile is a guest's
C9_Witness ==
    /\ builderResult.builder = "buildPageViewEvent"
    /\ builderArgs.profile = Undefined
    /\ BuiltEvent.loginStatus = "guest"
    /\ BuiltEvent.visitorType = "Guest"

ProductAbsent ==
    /\ builderResult.builder \in {"buildProductViewEvent", "buildProductListAddEvent"}
    /\ builderArgs.product = <<>>

\* C11: no builder rejects when only an optional input (profile, product
\* list) is missing; a builder rejects only when a hard-required parameter
\* (the cart session id, the product) is absent.
C11_RejectsOnlyOnMissingRequired ==
    (builderResult.builder # "none" /\ builderResult.event = <<>>)
        => (builderArgs.cartSessionId = Null \/ ProductAbsent)


\* the line items formatProductListItems returned and the items it was given
Formatted == builderResult.builder = "formatProductListItems"
LineItems == builderResult.event
GivenItems == builderArgs.items

\* C12 as claimed: the formatter returns one line item per input item in
\* the same order, each quantity passed through verbatim, every line item
\* tagged with the given cart session id (cartID) and the item's per-unit
\* price (unitPrice).
C12_QuantityVerbatim ==
    Formatted
        => /\ Len(LineItems) = Len(GivenItems)
           /\ \A i \in 1..Len(GivenItems) :
                /\ LineItems[i].SKU = GivenItems[i].sku
                /\ LineItems[i].quantity = GivenItems[i].quantity
                /\ LineItems[i].cartID = builderArgs.cartSessionId
                /\ LineItems[i].unitPrice = GivenItems[i].price

\* C12 as amended: one line item per input item in the same order, tagged
\* with the given cart session id and the item's price (0 when missing);
\* the quantity is passed through when it is a non-zero number and is 1
\* when the item's quantity is missing or 0.
C12_QuantityDefaultsToOne ==
    Formatted
        => /\ Len(LineItems) = Len(GivenItems)
           /\ \A i \in 1..Len(GivenItems) :
                /\ LineItems[i].SKU = GivenItems[i].sku
                /\ LineItems[i].quantity =
                       IF GivenItems[i].quantity = 0 THEN 1 ELSE GivenItems[i].quantity
                /\ LineItems[i].cartID = builderArgs.cartSessionId
                /\ LineItems[i].unitPrice = GivenItems[i].price

\* C12 witness: two different items, one with quantity 2 and one without a
\* quantity, formatted under a cart session id
C12_Witness ==
    /\ Formatted
    /\ Len(GivenItems) = 2
    /\ GivenItems[1].sku # GivenItems[2].sku
    /\ GivenItems[1].quantity = 2 /\ GivenItems[2].quantity = 0
    /\ builderArgs.cartSessionId = 1
    /\ LineItems[1].quantity = 2 /\ LineItems[2].quantity = 1


\* C13: an add-to-cart event built for a product under cart session id c
\* has exactly one line item, whose SKU is the product's sku, whose
\* priceTotal is the product's price and whose cartID is c, whether the
\* profile is absent, a guest's or a logged-in user's.
C13_AddEventHasOneLineItem ==
    (builderResult.builder = "buildProductListAddEvent" /\ builderResult.event # <<>>)
        => /\ Len(BuiltEvent.productListItems) = 1
           /\ BuiltEvent.productListItems[1].SKU = builderArgs.product[1].sku
           /\ BuiltEvent.productListItems[1].priceTotal = builderArgs.product[1].price
           /\ BuiltEvent.productListItems[1].cartID = builderArgs.cartSessionId

\* C13 witness: a logged-in user's add event for two units of S1 under
\* cart session id 1
C13_Witness ==
    /\ builderResult.builder = "buildProductListAddEvent"
    /\ builderResult.event # <<>>
    /\ HasFirstName
    /\ builderArgs.cartSessionId = 1
    /\ builderArgs.product[1].quantity = 2
    /\ BuiltEvent.productListItems[1].priceTotal = Price("S1")


\* the counter an event of the given eventType is required to carry
RequiredCounter(eventType) ==
    CASE eventType = "mobileApp.navigation.pageViews" -> "pageViews"
      [] eventType = "commerce.checkouts" -> "checkouts"
      [] eventType = "commerce.purchases" -> "purchases"
      [] eventType = "commerce.productListAdds" -> "productListAdds"
      [] eventType = "commerce.productListRemovals" -> "productListRemovals"
      [] eventType = "commerce.productListUpdates" -> "productListUpdates"
      [] eventType = "commerce.productViews" -> "productViews"
      [] OTHER -> "linkClicks"

\* C14: every built event carries the required counter of its event type
\* (pageViews, checkouts, purchases, productListAdds, productListRemovals,
\* productViews, linkClicks for login and logout) with value exactly 1, and
\* no counter of any built event has a value other than 1.
C14_CountersAreOne ==
    builderResult.event # <<>>
        => /\ RequiredCounter(BuiltEvent.eventType) \in DOMAIN BuiltEvent.counters
           /\ \A k \in DOMAIN BuiltEvent.counters : BuiltEvent.counters[k] = 1

\* C14 witness: a purchase event built for a list of one line item
C14_Witness ==
    /\ builderResult.builder = "buildPurchaseEvent"
    /\ builderResult.event # <<>>
    /\ Len(BuiltEvent.productListItems) = 1
    /\ BuiltEvent.counters.purchases = 1


\* the identities buildTenantIdentities returned
BuiltIdentities == builderResult.event

\* C15: buildTenantIdentities is sparse: a field is present only if its
\* input was provided, hashedEmail is present exactly when emailAddress is,
\* no field is the empty string, and with no inputs the result has no keys.
C15_TenantIdentitiesSparse ==
    builderResult.builder = "buildTenantIdentities"
        => /\ "ecid" \in DOMAIN BuiltIdentities => builderArgs.ecid # <<>>
           /\ "emailAddress" \in DOMAIN BuiltIdentities => builderArgs.email # <<>>
           /\ "mobilePhone" \in DOMAIN BuiltIdentities => builderArgs.phone # <<>>
           /\ "hashedEmail" \in DOMAIN BuiltIdentities
                  <=> "emailAddress" \in DOMAIN BuiltIdentities
           /\ \A k \in DOMAIN BuiltIdentities : BuiltIdentities[k] # <<>>
           /\ (builderArgs.ecid = <<>> /\ builderArgs.email = <<>>
                   /\ builderArgs.phone = <<>>)
                  => DOMAIN BuiltIdentities = {}

\* C15 witness: only an email was provided and the result has exactly the
\* plain and the hashed email
C15_Witness ==
    /\ builderResult.builder = "buildTenantIdentities"
    /\ builderArgs.ecid = <<>> /\ builderArgs.phone = <<>>
    /\ builderArgs.email = <<"A", "@", "b">>
    /\ DOMAIN BuiltIdentities = {"emailAddress", "hashedEmail"}

\* trimmed and lower-cased, as the claim's rule normalises an email
Normalised(email) == trim(toLowerCase(email))

\* C16: hashEmail depends only on the trimmed, lower-cased email: two
\* inputs that differ only in letter case or surrounding whitespace yield
\* the same digest, and the empty input yields the empty string.
C16_DigestOfNormalisedEmail ==
    builderResult.builder = "hashEmail"
        => /\ Normalised(builderArgs.email) = Normalised(builderArgs.other)
                  => builderResult.event.email = builderResult.event.other
           /\ builderArgs.email = <<>> => builderResult.event.email = <<>>


\* a marker of the inbound message matches: one of the Adobe data keys is
\* present, or the sender id contains 'adobe', 'journey' or 'campaign'
MarkerMatches ==
    LET m == builderArgs.remoteMessage IN
    \/ m.data # <<>> /\ \E k \in AdobeDataKeys : k \in DOMAIN m.data[1]
    \/ m.from # <<>> /\ \E w \in AdobeSenderMarkers : includes(m.from[1], w)

ClearCompletes == pushOps.clear.pc = "setPushIdentifier" /\ pushOps'.clear.pc = "idle"

\* the end state of the repair: the registered token is '' and the
\* identities are reset
Repaired(sdk) == sdk.pushIdentifier = Some(<<>>) /\ sdk.identities = "reset"

\* C18: clearAdobePushTokens attempts both steps (setPushIdentifier(''),
\* then resetIdentities) independently: each step that does not fail takes
\* effect whether or not the other failed, a failed step is logged and
\* changes nothing, the call returns true, and a repair run on the repaired
\* state leaves it repaired.
C18_RepairStepsIndependent ==
    [][ClearCompletes =>
         LET c == pushOps'.clear IN
         /\ c.attempted = {"setPushIdentifier", "resetIdentities"}
         /\ c.result = "true"
         /\ adobe'.pushIdentifier =
                IF "setPushIdentifier" \in c.logged THEN adobe.pushIdentifier
                ELSE Some(<<>>)
         /\ adobe'.identities =
                IF "resetIdentities" \in c.logged THEN adobe.identities ELSE "reset"
         /\ Repaired(adobe) => Repaired(adobe')]_vars

\* C18 witness: a repair whose setPushIdentifier('') failed has returned
\* true with the old token still registered and the identities reset
C18_Witness ==
    /\ pushOps.clear.pc = "idle"
    /\ pushOps.clear.result = "true"
    /\ pushOps.clear.logged = {"setPushIdentifier"}
    /\ adobe.pushIdentifier = Some(<<"o", "l", "d">>)
    /\ adobe.identities = "reset"

\* the service caches an APNs or FCM token, which
\* registerCurrentTokenWithAdobe would register
HoldsPlatformToken(svc) == svc.expoPushToken \in ApnsTokens \cup FcmTokens

\* C19: when clearAdobePushTokens completes the service holds no cached
\* token that registerCurrentTokenWithAdobe could register again without a
\* fresh registerForPushNotifications.
C19_RepairClearsCachedToken ==
    [][ClearCompletes => ~HoldsPlatformToken(push')]_vars

\* C20: at most one foreground message listener is active, and an inbound
\* message schedules at most one local notification.
C20_OneMessageListener ==
    push.listeners <= 1 /\ delivered.notifications <= 1

\* the padded URL of UrlInputs and what trim makes of it
PaddedURL == <<" ", "x">> \o SessionIdParameter \o <<"1", " ">>

\* C21 (as stated): Assurance.startSession is called only with a URL that
\* contains 'adb_validation_sessionid=' and that URL is the operator's
\* input unchanged; a URL lacking the substring leads to an alert, to no
\* store write and to no SDK call.
C21_UrlHandedUnchanged ==
    [][/\ startSessionCalls' \ startSessionCalls \subseteq {assurance.url}
       /\ \A u \in startSessionCalls' : includes(u, SessionIdParameter)]_vars

\* C21 (amended): Assurance.startSession is called only with the
\* operator's input with leading and trailing whitespace removed, and only
\* if that contains 'adb_validation_sessionid='; the store is written only
\* with such a URL; a URL lacking the substring ends startSessionClicked
\* with an alert.
C21_TrimmedUrlHanded ==
    [][/\ startSessionCalls' \ startSessionCalls \subseteq {trim(assurance.url)}
       /\ \A u \in startSessionCalls' : includes(u, SessionIdParameter)
       /\ (storedAssuranceURL' # storedAssuranceURL /\ storedAssuranceURL' # <<>>)
            => /\ storedAssuranceURL' = trim(assurance.url)
               /\ includes(storedAssuranceURL', SessionIdParameter)
       /\ (/\ assurance.pc = "getStoredAppId"
           /\ assurance'.pc # "getStoredAppId"
           /\ ~includes(assurance.url, SessionIdParameter))
            => /\ assurance'.pc = "idle"
               /\ assurance'.alert \in {"App ID Required", "Error", "Invalid URL"}
               /\ UNCHANGED <<storedAssuranceURL, startSessionCalls>>]_vars

\* C21 witness: the padded URL was started in its trimmed form and a later
\* URL without the parameter has been turned down
C21_Witness ==
    /\ startSessionCalls = {trim(PaddedURL)}
    /\ trim(PaddedURL) # PaddedURL
    /\ assurance.url = <<"x">>
    /\ assurance.alert = "Invalid URL"
    /\ assurance.pc = "idle"

C23_TrackingFailureIsNoOp ==
    [][/\ (rem.pc = "sending" /\ rem'.pc = "idle") => ~InCart(cart', rem.sku)
       /\ (chk.pc = "sending" /\ chk'.pc = "idle") => focused' = "Checkout"
       /\ (pay.pc = "sending" /\ pay'.pc # "sending")
            => /\ pay'.pc \in {"refreshing", "confetti"}
               /\ ~pay'.purchaseSent => pay'.pc = "confetti"
       /\ (pay.pc \in {"refreshing", "resetting"} /\ pay'.pc # pay.pc)
            => pay'.pc \in {"resetting", "confetti"}
       /\ (pay.pc = "confetti" /\ pay'.pc # "confetti")
            => cart' = <<>> /\ focused' = "home"]_vars

\* C23 witness: the checkout event and the purchase event were both turned
\* down, and the payment shows its confirmation
C23_Witness ==
    /\ sent.eventType = "none"
    /\ focused = "Checkout"
    /\ pay.pc = "confetti"
    /\ ~pay.purchaseSent
    /\ hook["CartTab"].cartSessionId # Null
    /\ identityMap["CartTab"]

\* C24 (as stated): once handlePayment has started, the Checkout screen
\* dispatches no checkout page view any more.
C24_NoPageViewAfterPayment ==
    [][purchaseInProgress
         => ~(pv["Checkout"].pc = "sending" /\ pv'["Checkout"].pc = "idle"
              /\ sent' # sent)]_vars

\* C24 (amended): once handlePayment has started, the Checkout screen
\* starts no page view any more, whatever changes (the session id swapped by
\* the reset included); a page view that was in flight when handlePayment
\* started can only finish, with the session id it captured before.
C24_NoPageViewStartsAfterPayment ==
    [][purchaseInProgress
         => \/ pv'["Checkout"] = pv["Checkout"]
            \/ pv["Checkout"].pc = "sending" /\ pv'["Checkout"] = Idle]_vars

\* C24 witness: the payment's reset has swapped the session id of the
\* focused Checkout screen, whose identity map is resolved, and no page
\* view is under way
C24_Witness ==
    /\ purchaseInProgress
    /\ focused = "Checkout"
    /\ identityMap["Checkout"]
    /\ pay.pc = "confetti" /\ pay.purchaseSent
    /\ ~SessionNotReady(hook["Checkout"])
    /\ hook["Checkout"].cartSessionId # pay.cartSessionId
    /\ pv["Checkout"].pc = "idle"

\* C25: when Assurance.startSession fails, the URL that startSessionClicked
\* saved for that attempt is no longer in the store once the handler has
\* returned.
C25_FailedStartRemovesUrl ==
    (assurance.pc = "idle" /\ assurance.outcome = "startSessionFailed")
        => storedAssuranceURL # trim(assurance.url)

\* a fallback token: `MockToken_...` or `AndroidMockToken_...`
IsFallbackToken(token) ==
    \/ startsWith(token, <<"M", "o", "c", "k", "T", "o", "k", "e", "n", "_">>)
    \/ startsWith(token, <<"A", "n", "d", "r", "o", "i", "d", "M", "o", "c", "k", "T", "o", "k",
                           "e", "n", "_">>)

\* C26: no fallback mock token is ever registered with Adobe through
\* MobileCore.setPushIdentifier, and registerForPushNotifications installs
\* no FCM message handler when the token it caches is a fallback token.
C26_MockTokenNeverUsed ==
    [][/\ adobe'.pushIdentifier # Undefined
            => ~IsFallbackToken(adobe'.pushIdentifier[1])
       /\ (pushOps.register.pc = "token" /\ IsFallbackToken(push'.expoPushToken))
            => push'.listeners = push.listeners]_vars

\* C27: when every screen has mounted useCartSession and every load has
\* completed with a working store and no reset has been called, all hook
\* instances hold the same cart session id, the one in the store.
C27_ConcurrentMountsAgree ==
    (\A s \in Screens :
        /\ hook[s].mounted /\ hook[s].pc = "done" /\ ~hook[s].caught
        /\ hook[s].resetResult = "none" /\ hook[s].resetPc = "idle")
        => \A s \in Screens : hook[s].cartSessionId = storedCartSessionId

\* C30: a hook instance whose loading flag is false holds a non-null cart
\* session id; the flag is cleared only by the load as it ends, and once
\* cleared it stays cleared for as long as the instance is mounted.
C30_LoadingFlag ==
    [][\A s \in Screens :
         /\ (hook'[s].mounted /\ ~hook'[s].isLoading) => hook'[s].cartSessionId # Null
         /\ (hook[s].isLoading /\ ~hook'[s].isLoading)
              => /\ hook[s].pc \in {"reading", "writing"}
                 /\ hook'[s].pc = "done"
         /\ (~hook[s].isLoading /\ hook'[s].mounted) => ~hook'[s].isLoading]_vars

\* C30 witness: a loaded instance has been through a reset and its flag is
\* still cleared
C30_Witness ==
    /\ hook["CartTab"].mounted
    /\ ~hook["CartTab"].isLoading
    /\ hook["CartTab"].resetResult = "fulfilled"
    /\ hook["CartTab"].cartSessionId # Null

\* C28: registerCurrentTokenWithAdobe returns true only if
\* MobileCore.setPushIdentifier was called with the cached token and did
\* not fail; when that call fails the function returns false.
C28_TrueOnlyWhenRegistered ==
    /\ (pushOps.current.result = "true"
          /\ pushOps.current.token \in ApnsTokens \cup FcmTokens)
         => pushOps.current.attempted = {"setPushIdentifier"}
    /\ (pushOps.current.pc = "idle" /\ pushOps.current.logged # {}
          /\ pushOps.current.token \in ApnsTokens \cup FcmTokens)
         => pushOps.current.result = "false"

====
